---- MODULE Spec2Model ----
(***************************************************************************)
(* Model of the realtime Open Interest poller                              *)
(* (src/Digital Ocean/oi_realtime_poller.py).                              *)
(*                                                                         *)
(* Numbers: OI values and timestamps are Python floats in the source; the  *)
(* model uses integers and compares ratios exactly (cross-multiplied).     *)
(* threshold_pct values are held in percent (0.03 -> 3).                   *)
(* Strings that are formatted and parsed (the cooldown keys) are held as   *)
(* sequences of chunks, a chunk being either the delimiter "|" or a        *)
(* delimiter-free piece of text.                                           *)
(***************************************************************************)
EXTENDS Integers, Sequences, FiniteSets, TLC

VARIABLES
    now,                \* time.time(), in seconds since the model's epoch
    loop_count,         \* main_loop: loop_count
    oi_history,         \* symbol -> sequence of samples [ts, oi]
    oi_alert_state,     \* (symbol, timeframe label) -> "INSIDE" | "OUTSIDE"
    last_oi_alert_at,   \* (symbol, direction, timeframe label) -> timestamp
    cooldown_file,      \* COOLDOWN_STATE_FILE on disk
    alerts,             \* the calls of emit_oi_alert, in order
    run,                \* number of process starts so far (0 = first process)
    last,               \* the latest maybe_emit_oi_alert call: inputs and pre-state
    pending,            \* labels whose latest candidate was dropped by the min-delta test
    universe_size,      \* argument of compute_polling_interval
    interval_sec,       \* main_loop: interval_sec, as returned by compute_polling_interval
    divisions,          \* "/" operations executed by the latest compute_polling_interval call (-1: no call yet)
    lookup,             \* the latest get_oi_at_lookback call made on its own
    loaded,             \* the latest save_cooldown_state / load_cooldown_state round trip
    symbols,            \* main_loop: symbols, the universe in use (a list)
    status,             \* where the process is: "boot", "running" or the way it exited
    boot,               \* what the startup of main_loop has done so far
    cycle,              \* the latest cycle of the while loop: inputs, pre-state and what it did
    pool                \* the ThreadPoolExecutor of the cycle in progress and the for loop over it

vars == << now, loop_count, oi_history, oi_alert_state, last_oi_alert_at,
           cooldown_file, alerts, run, last, pending, universe_size,
           interval_sec, divisions, lookup, loaded, symbols, status, boot, cycle,
           pool >>

-----------------------------------------------------------------------------
(* Configuration (defaults of the os.getenv calls)                          *)

MAX_REQ_PER_MIN == 2000
MIN_INTERVAL_SEC == 5
MAX_INTERVAL_SEC == 20
OI_MIN_DELTA_CONTRACTS == 5000
max_cooldown == 3600

OI_ALERT_TIMEFRAMES ==
    << [label |-> "5 min",  threshold_pct |-> 3,  lookback_sec |-> 300,  cooldown_sec |-> 600],
       [label |-> "15 min", threshold_pct |-> 7,  lookback_sec |-> 900,  cooldown_sec |-> 900],
       [label |-> "1 hour", threshold_pct |-> 12, lookback_sec |-> 3600, cooldown_sec |-> 3600] >>

DENYLISTED == "USDCUSDT"

-----------------------------------------------------------------------------
(* Bounds of the model                                                      *)

MaxLoops == 4
MaxRestarts == 1
MaxUniverse == 700
MaxBuf == 3
MaxEntries == 2

\* Seconds between two consecutive samples of the symbol, and the OI values fetched.
Steps == {299, 300, 301}
OIValues == {100000, 106000, 110000, 113000}
Symbol == "AAAUSDT"
Directions == {"UP", "DOWN"}
Labels == {OI_ALERT_TIMEFRAMES[i].label : i \in DOMAIN OI_ALERT_TIMEFRAMES}

-----------------------------------------------------------------------------
(* Python dicts                                                             *)

EmptyDict == [k \in {} |-> 0]
Put(d, k, v) == [x \in (DOMAIN d) \cup {k} |-> IF x = k THEN v ELSE d[x]]
Get(d, k, default) == IF k \in DOMAIN d THEN d[k] ELSE default

Abs(x) == IF x < 0 THEN -x ELSE x
Min(a, b) == IF a < b THEN a ELSE b
Max(a, b) == IF a > b THEN a ELSE b

-----------------------------------------------------------------------------
(* compute_polling_interval                                                 *)

\* int(round(x)) for x = num/den >= 0: Python 3 rounds halves to the even integer
\* (60.0 / (2000 / n) is exactly representable at every half in the model's range).
round_half_even(num, den) ==
    LET q == num \div den
        r == num % den
    IN  IF 2 * r > den THEN q + 1
        ELSE IF 2 * r < den THEN q
        ELSE IF q % 2 = 0 THEN q ELSE q + 1

\* The guard of line 218 returning the lower bound.
compute_polling_interval_min(n) ==
    IF n <= 0
    THEN [value |-> MIN_INTERVAL_SEC, divisions |-> 0]
    ELSE [value |-> Min(MAX_INTERVAL_SEC,
                        Max(MIN_INTERVAL_SEC, round_half_even(60 * n, MAX_REQ_PER_MIN))),
          divisions |-> 2]

\* The clamp of line 224 without its lower bound.
compute_polling_interval_no_floor(n) ==
    IF n <= 0
    THEN [value |-> MAX_INTERVAL_SEC, divisions |-> 0]
    ELSE [value |-> Min(MAX_INTERVAL_SEC, round_half_even(60 * n, MAX_REQ_PER_MIN)),
          divisions |-> 2]

\* Returns [value, divisions]: the interval and the number of "/" operations executed.
\* polls_per_min_per_symbol = MAX_REQ_PER_MIN / universe_size is the fraction
\* MAX_REQ_PER_MIN over universe_size; raw_interval = 60.0 / that fraction is
\* (60 * universe_size) over MAX_REQ_PER_MIN.
compute_polling_interval(n) ==
    IF n <= 0
    THEN [value |-> MAX_INTERVAL_SEC, divisions |-> 0]
    ELSE LET polls_num == MAX_REQ_PER_MIN
             polls_den == n
             raw_num == 60 * polls_den
             raw_den == polls_num
         IN  [value |-> Min(MAX_INTERVAL_SEC,
                            Max(MIN_INTERVAL_SEC, round_half_even(raw_num, raw_den))),
              divisions |-> 2]

-----------------------------------------------------------------------------
(* get_oi_at_lookback                                                       *)

\* The tolerance without its clamp.
tolerance_unclamped(lookback_sec) == lookback_sec \div 10

tolerance_of(lookback_sec) == Min(120, Max(30, lookback_sec \div 10))

\* The scan with "<=" for "<": of two samples at the same distance the later wins.
RECURSIVE scan_closest_last_wins(_, _, _, _, _, _, _)
scan_closest_last_wins(buf, lo, hi, target_time, tolerance, best, min_diff) ==
    IF lo > hi THEN best
    ELSE IF lo = hi
    THEN LET diff == Abs(buf[lo].ts - target_time)
         IN  IF (best = 0 \/ diff <= min_diff) /\ diff <= tolerance THEN lo ELSE best
    ELSE LET mid == (lo + hi) \div 2
             b == scan_closest_last_wins(buf, lo, mid, target_time, tolerance, best, min_diff)
         IN  IF b = 0
             THEN scan_closest_last_wins(buf, mid + 1, hi, target_time, tolerance, 0, 0)
             ELSE scan_closest_last_wins(buf, mid + 1, hi, target_time, tolerance, b,
                                                Abs(buf[b].ts - target_time))

\* The for loop of get_oi_at_lookback over buf[lo..hi], the samples taken from left
\* to right: best is the index of closest_sample so far (0 = None), min_diff its
\* distance (meaningless while best = 0). The loop over lo..hi is the loop over
\* lo..mid followed by the loop over mid+1..hi, which keeps the evaluation of a
\* full buffer a few levels deep.
RECURSIVE scan_closest(_, _, _, _, _, _, _)
scan_closest(buf, lo, hi, target_time, tolerance, best, min_diff) ==
    IF lo > hi THEN best
    ELSE IF lo = hi
    THEN LET diff == Abs(buf[lo].ts - target_time)
         IN  IF (best = 0 \/ diff < min_diff) /\ diff <= tolerance THEN lo ELSE best
    ELSE LET mid == (lo + hi) \div 2
             b == scan_closest(buf, lo, mid, target_time, tolerance, best, min_diff)
         IN  IF b = 0
             THEN scan_closest(buf, mid + 1, hi, target_time, tolerance, 0, 0)
             ELSE scan_closest(buf, mid + 1, hi, target_time, tolerance, b,
                                      Abs(buf[b].ts - target_time))

\* Index in the symbol's buffer of the sample get_oi_at_lookback returns, 0 for None.
lookback_index(hist, symbol, t, lookback_sec) ==
    IF symbol \notin DOMAIN hist \/ Len(hist[symbol]) < 2
    THEN 0
    ELSE scan_closest(hist[symbol], 1, Len(hist[symbol]), t - lookback_sec,
                      tolerance_of(lookback_sec), 0, 0)

None == << >>

-----------------------------------------------------------------------------
(* The history buffers: deque(maxlen=maxlen)                                *)

\* A capacity of one hour of samples at a 10 s interval.
maxlen_hour == 3600 \div 10

\* maxlen = int(3 * 3600 / 10)
maxlen == (3 * 3600) \div 10

\* An append that never evicts.
deque_append_unbounded(buf, sample) == Append(buf, sample)

\* An append at the left end (appendleft): the newest sample comes first.
deque_append_left(buf, sample) ==
    IF Len(buf) >= maxlen THEN << sample >> \o SubSeq(buf, 1, Len(buf) - 1)
                          ELSE << sample >> \o buf

\* oi_history[symbol].append(sample) on a deque of capacity maxlen: a full deque
\* drops its leftmost item.
deque_append(buf, sample) ==
    IF Len(buf) >= maxlen THEN Append(Tail(buf), sample) ELSE Append(buf, sample)

\* None, or <<oi>> of the closest sample.
get_oi_at_lookback(hist, symbol, t, lookback_sec) ==
    LET i == lookback_index(hist, symbol, t, lookback_sec)
    IN  IF i = 0 THEN None ELSE << hist[symbol][i].oi >>

-----------------------------------------------------------------------------
(* Cooldown store                                                           *)

DELIM == "|"

\* The text of a string as chunks. Known strings are one delimiter-free chunk each;
\* "A|B" is a symbol that contains the delimiter.
Chunks(s) == IF s = "A|B" THEN << "A", DELIM, "B" >> ELSE << s >>

\* f"{key[0]}|{key[1]}|{key[2]}"
key_str_of(key) ==
    Chunks(key[1]) \o << DELIM >> \o Chunks(key[2]) \o << DELIM >> \o Chunks(key[3])

RECURSIVE concat(_)
concat(chunks) == IF chunks = << >> THEN "" ELSE Head(chunks) \o concat(Tail(chunks))

\* key_str.split('|'): cur is the part being read, parts those already closed.
RECURSIVE split_from(_, _, _, _)
split_from(s, i, cur, parts) ==
    IF i > Len(s) THEN Append(parts, concat(cur))
    ELSE IF s[i] = DELIM
         THEN split_from(s, i + 1, << >>, Append(parts, concat(cur)))
         ELSE split_from(s, i + 1, Append(cur, s[i]), parts)

split(s) == split_from(s, 1, << >>, << >>)

NoFile == [exists |-> FALSE, valid |-> TRUE, data |-> EmptyDict]
CorruptFile == [exists |-> TRUE, valid |-> FALSE, data |-> EmptyDict]

\* The dict written without pruning.
serializable_unpruned(cooldowns, t) ==
    LET strs == {key_str_of(k) : k \in DOMAIN cooldowns}
    IN  [s \in strs |-> cooldowns[CHOOSE k \in DOMAIN cooldowns : key_str_of(k) = s]]

\* The dict save_cooldown_state writes at time t.
serializable_of(cooldowns, t) ==
    LET kept == {k \in DOMAIN cooldowns : t - cooldowns[k] <= max_cooldown}
        strs == {key_str_of(k) : k \in kept}
    IN  [s \in strs |-> cooldowns[CHOOSE k \in kept : key_str_of(k) = s]]

\* save_cooldown_state at time t. write: "ok"; "fail_open" (open raises, caught);
\* "fail_write" (the file was opened with 'w', hence truncated, and json.dump raised).
save_cooldown_state(file, cooldowns, t, write) ==
    IF write = "ok"
    THEN [exists |-> TRUE, valid |-> TRUE, data |-> serializable_of(cooldowns, t)]
    ELSE IF write = "fail_open" THEN file
    ELSE CorruptFile

\* A load that prunes at the age of the shortest cooldown (600 s).
load_cooldown_state_shortest(file, t) ==
    IF ~file.exists \/ ~file.valid
    THEN EmptyDict
    ELSE LET raw_data == file.data
             good == {s \in DOMAIN raw_data :
                         /\ ~(t - raw_data[s] > OI_ALERT_TIMEFRAMES[1].cooldown_sec)
                         /\ Len(split(s)) = 3}
             keys == {split(s) : s \in good}
         IN  [k \in keys |-> raw_data[CHOOSE s \in good : split(s) = k]]

\* load_cooldown_state at time t.
load_cooldown_state(file, t) ==
    IF ~file.exists \/ ~file.valid
    THEN EmptyDict
    ELSE LET raw_data == file.data
             good == {s \in DOMAIN raw_data :
                         /\ ~(t - raw_data[s] > max_cooldown)
                         /\ Len(split(s)) = 3}
             keys == {split(s) : s \in good}
         IN  [k \in keys |-> raw_data[CHOOSE s \in good : split(s) = k]]

-----------------------------------------------------------------------------
(* maybe_emit_oi_alert                                                      *)

\* Any rise taken for a rise beyond the threshold.
pct_ge_any(abs_change, oi_baseline, thr) == abs_change > 0

\* pct_change = abs_change / oi_baseline compared with threshold_pct / 100
pct_ge(abs_change, oi_baseline, thr) ==
    IF oi_baseline > 0 THEN abs_change * 100 >= thr * oi_baseline
                       ELSE abs_change * 100 <= thr * oi_baseline
pct_le_neg(abs_change, oi_baseline, thr) ==
    IF oi_baseline > 0 THEN abs_change * 100 <= (0 - thr) * oi_baseline
                       ELSE abs_change * 100 >= (0 - thr) * oi_baseline

\* A latch that is never read: every evaluation sees INSIDE.
previous_state_ignored(state, state_key) == "INSIDE"

\* oi_alert_state.get(state_key, "INSIDE")
previous_state_of(state, state_key) == Get(state, state_key, "INSIDE")

\* The absolute-delta test left out.
min_delta_unchecked(abs_change, direction) == TRUE

\* abs_change >= OI_MIN_DELTA_CONTRACTS (UP), abs_change <= -OI_MIN_DELTA_CONTRACTS (DOWN)
min_delta_ok(abs_change, direction) ==
    IF direction = "UP" THEN abs_change >= OI_MIN_DELTA_CONTRACTS
                        ELSE abs_change <= 0 - OI_MIN_DELTA_CONTRACTS

\* The latch left as it was.
force_inside_forgotten(state, state_key) == state

\* oi_alert_state[(symbol, tf_label)] = "INSIDE"
force_inside(state, state_key) == Put(state, state_key, "INSIDE")

\* No cooldown test at all.
in_cooldown_never(cool, cooldown_key, timestamp, tf_cooldown) == FALSE

\* A cooldown shared by the two directions: a record of either one holds back both.
in_cooldown_either_direction(cool, cooldown_key, timestamp, tf_cooldown) ==
    \E dir \in Directions :
        /\ << cooldown_key[1], dir, cooldown_key[3] >> \in DOMAIN cool
        /\ timestamp - cool[<< cooldown_key[1], dir, cooldown_key[3] >>] < tf_cooldown

\* The cooldown test of lines 501-505 / 524-528: TRUE when the candidate is skipped.
in_cooldown(cool, cooldown_key, timestamp, tf_cooldown) ==
    /\ cooldown_key \in DOMAIN cool
    /\ timestamp - cool[cooldown_key] < tf_cooldown

\* The emission with the latch left INSIDE (alert_emitted never set).
emit_candidate_no_latch(S, symbol, direction, tf, oi_baseline, current_oi, timestamp, io) ==
    LET cooldown_key == << symbol, direction, tf.label >>
        alert == [symbol |-> symbol, direction |-> direction, timeframe |-> tf.label,
                  timestamp |-> timestamp, baseline |-> oi_baseline,
                  current |-> current_oi, run |-> S.run,
                  delivered |-> io.post = "ok"]
        cool2 == Put(S.cool, cooldown_key, timestamp)
    IN  [S EXCEPT !.alerts = Append(@, alert),
                  !.cool = cool2,
                  !.file = save_cooldown_state(S.file, cool2, timestamp, io.write)]

\* The emission that sets the latch and writes the file but keeps no record in memory.
emit_candidate_unrecorded(S, symbol, direction, tf, oi_baseline, current_oi, timestamp, io) ==
    LET cooldown_key == << symbol, direction, tf.label >>
        alert == [symbol |-> symbol, direction |-> direction, timeframe |-> tf.label,
                  timestamp |-> timestamp, baseline |-> oi_baseline,
                  current |-> current_oi, run |-> S.run,
                  delivered |-> io.post = "ok"]
    IN  [S EXCEPT !.alerts = Append(@, alert),
                  !.file = save_cooldown_state(S.file, Put(S.cool, cooldown_key, timestamp),
                                               timestamp, io.write),
                  !.state = Put(@, << symbol, tf.label >>, "OUTSIDE"),
                  !.pending = @ \ {tf.label}]

\* The emission that keeps the record in memory only (no save_cooldown_state call).
emit_candidate_unsaved(S, symbol, direction, tf, oi_baseline, current_oi, timestamp, io) ==
    LET cooldown_key == << symbol, direction, tf.label >>
        alert == [symbol |-> symbol, direction |-> direction, timeframe |-> tf.label,
                  timestamp |-> timestamp, baseline |-> oi_baseline,
                  current |-> current_oi, run |-> S.run,
                  delivered |-> io.post = "ok"]
    IN  [S EXCEPT !.alerts = Append(@, alert),
                  !.cool = Put(S.cool, cooldown_key, timestamp),
                  !.state = Put(@, << symbol, tf.label >>, "OUTSIDE"),
                  !.pending = @ \ {tf.label}]

\* The emission that forgets the record when the save fails.
emit_candidate_rollback(S, symbol, direction, tf, oi_baseline, current_oi, timestamp, io) ==
    LET cooldown_key == << symbol, direction, tf.label >>
        alert == [symbol |-> symbol, direction |-> direction, timeframe |-> tf.label,
                  timestamp |-> timestamp, baseline |-> oi_baseline,
                  current |-> current_oi, run |-> S.run,
                  delivered |-> io.post = "ok"]
        cool2 == IF io.write = "ok" THEN Put(S.cool, cooldown_key, timestamp) ELSE S.cool
    IN  [S EXCEPT !.alerts = Append(@, alert),
                  !.cool = cool2,
                  !.file = save_cooldown_state(S.file, Put(S.cool, cooldown_key, timestamp),
                                               timestamp, io.write),
                  !.state = Put(@, << symbol, tf.label >>, "OUTSIDE"),
                  !.pending = @ \ {tf.label}]

\* Lines 507-517 / 530-540 and 543-544: the emission of a candidate that passed the
\* cooldown test. S is the state the call works on; io.write is the outcome of the
\* save, io.crash the point at which the process dies ("no" for none), io.post the
\* outcome of the post in emit_oi_alert, whose return value line 514 / 537 drops.
emit_candidate(S, symbol, direction, tf, oi_baseline, current_oi, timestamp, io) ==
    LET cooldown_key == << symbol, direction, tf.label >>
        alert == [symbol |-> symbol, direction |-> direction, timeframe |-> tf.label,
                  timestamp |-> timestamp, baseline |-> oi_baseline,
                  current |-> current_oi, run |-> S.run,
                  delivered |-> io.post = "ok"]
        cool2 == Put(S.cool, cooldown_key, timestamp)
    IN  IF io.crash = "before_save"
        THEN [S EXCEPT !.alerts = Append(@, alert), !.crashed = TRUE]
        ELSE IF io.crash = "in_save"
        THEN [S EXCEPT !.alerts = Append(@, alert), !.cool = cool2,
                       !.file = CorruptFile, !.crashed = TRUE]
        ELSE [S EXCEPT !.alerts = Append(@, alert),
                       !.cool = cool2,
                       !.file = save_cooldown_state(S.file, cool2, timestamp, io.write),
                       !.state = Put(@, << symbol, tf.label >>, "OUTSIDE"),
                       !.pending = @ \ {tf.label}]

\* The cooldown skip promoting the latch as an emission does.
candidate_skip_promotes(S, symbol, direction, tf, oi_baseline, current_oi, timestamp, io) ==
    IF in_cooldown(S.cool, << symbol, direction, tf.label >>, timestamp, tf.cooldown_sec)
    THEN [S EXCEPT !.state = Put(@, << symbol, tf.label >>, "OUTSIDE")]
    ELSE emit_candidate(S, symbol, direction, tf, oi_baseline, current_oi, timestamp, io)

\* The cooldown skip leaving the whole call instead of the iteration.
candidate_skip_returns(S, symbol, direction, tf, oi_baseline, current_oi, timestamp, io) ==
    IF in_cooldown(S.cool, << symbol, direction, tf.label >>, timestamp, tf.cooldown_sec)
    THEN [S EXCEPT !.crashed = TRUE]
    ELSE emit_candidate(S, symbol, direction, tf, oi_baseline, current_oi, timestamp, io)

\* Lines 496-505 / 519-528: a candidate of the given direction.
candidate(S, symbol, direction, tf, oi_baseline, current_oi, timestamp, io) ==
    IF in_cooldown(S.cool, << symbol, direction, tf.label >>, timestamp, tf.cooldown_sec)
    THEN S
    ELSE emit_candidate(S, symbol, direction, tf, oi_baseline, current_oi, timestamp, io)

\* The iteration without the reset of lines 546-548: a latch once OUTSIDE stays so.
eval_timeframe_no_reset(S, hist, symbol, current_oi, timestamp, tf, io) ==
    LET baseline_data == get_oi_at_lookback(hist, symbol, timestamp, tf.lookback_sec)
        state_key == << symbol, tf.label >>
    IN  IF S.crashed THEN S
        ELSE IF baseline_data = None
        THEN [S EXCEPT !.state = force_inside(@, state_key)]
        ELSE IF baseline_data[1] = 0
        THEN [S EXCEPT !.state = force_inside(@, state_key)]
        ELSE LET oi_baseline == baseline_data[1]
                 abs_change == current_oi - oi_baseline
                 up == pct_ge(abs_change, oi_baseline, tf.threshold_pct)
                 down == pct_le_neg(abs_change, oi_baseline, tf.threshold_pct)
                 is_outside == up \/ down
                 previous_state == previous_state_of(S.state, state_key)
             IN  IF is_outside /\ previous_state = "INSIDE"
                 THEN IF up /\ min_delta_ok(abs_change, "UP")
                      THEN candidate(S, symbol, "UP", tf, oi_baseline, current_oi, timestamp, io)
                      ELSE IF down /\ min_delta_ok(abs_change, "DOWN")
                      THEN candidate(S, symbol, "DOWN", tf, oi_baseline, current_oi, timestamp, io)
                      ELSE [S EXCEPT !.pending = @ \cup {tf.label}]
                 ELSE S

\* The iteration with a latch that holds back only the direction that alerted: a
\* crossing in a direction without cooldown record is a candidate whatever the latch.
eval_timeframe_per_direction(S, hist, symbol, current_oi, timestamp, tf, io) ==
    LET baseline_data == get_oi_at_lookback(hist, symbol, timestamp, tf.lookback_sec)
        state_key == << symbol, tf.label >>
    IN  IF S.crashed THEN S
        ELSE IF baseline_data = None
        THEN [S EXCEPT !.state = force_inside(@, state_key)]
        ELSE IF baseline_data[1] = 0
        THEN [S EXCEPT !.state = force_inside(@, state_key)]
        ELSE LET oi_baseline == baseline_data[1]
                 abs_change == current_oi - oi_baseline
                 up == pct_ge(abs_change, oi_baseline, tf.threshold_pct)
                 down == pct_le_neg(abs_change, oi_baseline, tf.threshold_pct)
                 is_outside == up \/ down
                 direction == IF up THEN "UP" ELSE "DOWN"
                 previous_state ==
                     IF << symbol, direction, tf.label >> \in DOMAIN S.cool
                     THEN previous_state_of(S.state, state_key) ELSE "INSIDE"
             IN  IF is_outside /\ previous_state = "INSIDE"
                 THEN IF up /\ min_delta_ok(abs_change, "UP")
                      THEN candidate(S, symbol, "UP", tf, oi_baseline, current_oi, timestamp, io)
                      ELSE IF down /\ min_delta_ok(abs_change, "DOWN")
                      THEN candidate(S, symbol, "DOWN", tf, oi_baseline, current_oi, timestamp, io)
                      ELSE [S EXCEPT !.pending = @ \cup {tf.label}]
                 ELSE IF ~is_outside
                 THEN [S EXCEPT !.state = Put(@, state_key, "INSIDE")]
                 ELSE S

\* One iteration of the for loop over OI_ALERT_TIMEFRAMES (lines 456-550).
eval_timeframe(S, hist, symbol, current_oi, timestamp, tf, io) ==
    LET baseline_data == get_oi_at_lookback(hist, symbol, timestamp, tf.lookback_sec)
        state_key == << symbol, tf.label >>
    IN  IF S.crashed THEN S
        ELSE IF baseline_data = None
        THEN [S EXCEPT !.state = force_inside(@, state_key)]
        ELSE IF baseline_data[1] = 0
        THEN [S EXCEPT !.state = force_inside(@, state_key)]
        ELSE LET oi_baseline == baseline_data[1]
                 abs_change == current_oi - oi_baseline
                 up == pct_ge(abs_change, oi_baseline, tf.threshold_pct)
                 down == pct_le_neg(abs_change, oi_baseline, tf.threshold_pct)
                 is_outside == up \/ down
                 previous_state == previous_state_of(S.state, state_key)
             IN  IF is_outside /\ previous_state = "INSIDE"
                 THEN IF up /\ min_delta_ok(abs_change, "UP")
                      THEN candidate(S, symbol, "UP", tf, oi_baseline, current_oi, timestamp, io)
                      ELSE IF down /\ min_delta_ok(abs_change, "DOWN")
                      THEN candidate(S, symbol, "DOWN", tf, oi_baseline, current_oi, timestamp, io)
                      ELSE [S EXCEPT !.pending = @ \cup {tf.label}]
                 ELSE IF ~is_outside
                 THEN [S EXCEPT !.state = Put(@, state_key, "INSIDE")]
                 ELSE S

RECURSIVE eval_timeframes(_, _, _, _, _, _, _)
eval_timeframes(S, hist, symbol, current_oi, timestamp, i, io) ==
    IF i > Len(OI_ALERT_TIMEFRAMES) THEN S
    ELSE eval_timeframes(
             eval_timeframe(S, hist, symbol, current_oi, timestamp, OI_ALERT_TIMEFRAMES[i], io),
             hist, symbol, current_oi, timestamp, i + 1, io)

\* The evaluation without the test of line 449.
maybe_emit_oi_alert_no_denylist(S, hist, symbol, current_oi, timestamp, io) ==
    eval_timeframes(S, hist, symbol, current_oi, timestamp, 1, io)

\* maybe_emit_oi_alert(symbol, current_oi, _, timestamp) on state S.
maybe_emit_oi_alert(S, hist, symbol, current_oi, timestamp, io) ==
    IF symbol = DENYLISTED THEN S
    ELSE eval_timeframes(S, hist, symbol, current_oi, timestamp, 1, io)

Current == [state |-> oi_alert_state, cool |-> last_oi_alert_at, file |-> cooldown_file,
            alerts |-> alerts, run |-> run, pending |-> pending, crashed |-> FALSE]

NoFault == [write |-> "ok", crash |-> "no", post |-> "ok"]

NoCall == [kind |-> "none", symbol |-> "", oi |-> 0, ts |-> 0,
           state |-> EmptyDict, cool |-> EmptyDict, nalerts |-> 0, pending |-> {},
           io |-> NoFault]

CallRecord(symbol, oi, ts) ==
    [kind |-> "eval", symbol |-> symbol, oi |-> oi, ts |-> ts,
     state |-> oi_alert_state, cool |-> last_oi_alert_at, nalerts |-> Len(alerts),
     pending |-> pending, io |-> NoFault]

-----------------------------------------------------------------------------
(* The poll loop on a one-symbol universe                                   *)

NoLookup == [done |-> FALSE, lookback_sec |-> 0, index |-> 0, result |-> None]
NoRoundTrip == [saved |-> FALSE, saved_at |-> 0, done |-> FALSE, data |-> EmptyDict]

\* The variables of the startup and of the multi-symbol cycle.
LoopVars == << symbols, status, boot, cycle, pool >>
NotBooted == [config |-> "none", universe |-> FALSE, interval |-> FALSE,
              history |-> FALSE, cooldowns |-> "none"]
Booted == [config |-> "ok", universe |-> TRUE, interval |-> TRUE,
           history |-> TRUE, cooldowns |-> "missing"]
NoCycle == [ran |-> FALSE]
NoPool == [phase |-> "none"]
\* A process that started on the universe [Symbol] and is in its loop.
LoopIdle ==
    /\ symbols = << Symbol >>
    /\ status = "running"
    /\ boot = Booted
    /\ cycle = NoCycle
    /\ pool = NoPool

Init ==
    /\ now = 0
    /\ loop_count = 0
    /\ oi_history = [s \in {Symbol} |-> << >>]
    /\ oi_alert_state = EmptyDict
    /\ last_oi_alert_at = EmptyDict
    /\ cooldown_file = NoFile
    /\ alerts = << >>
    /\ run = 0
    /\ last = NoCall
    /\ pending = {}
    /\ universe_size = 1
    /\ interval_sec = compute_polling_interval(1).value
    /\ divisions = -1
    /\ lookup = NoLookup
    /\ loaded = NoRoundTrip
    /\ LoopIdle

\* One cycle whose fetch returned oi > 0 (main_loop lines 673-727): the sample is
\* stamped, appended and evaluated.
Poll(step, oi) ==
    /\ loop_count < MaxLoops
    /\ oi > 0
    /\ LET timestamp == now + step
           hist == [oi_history EXCEPT ![Symbol] = deque_append(@, [ts |-> timestamp, oi |-> oi])]
       IN  \E S \in {maybe_emit_oi_alert(Current, hist, Symbol, oi, timestamp, NoFault)} :
           /\ now' = timestamp
           /\ loop_count' = loop_count + 1
           /\ oi_history' = hist
           /\ oi_alert_state' = S.state
           /\ last_oi_alert_at' = S.cool
           /\ cooldown_file' = S.file
           /\ alerts' = S.alerts
           /\ pending' = S.pending
           /\ last' = CallRecord(Symbol, oi, timestamp)
    /\ UNCHANGED << run, universe_size, interval_sec, divisions, lookup, loaded >>
    /\ UNCHANGED LoopVars

Next == \E step \in Steps, oi \in OIValues : Poll(step, oi)

Spec == Init /\ [][Next]_vars

-----------------------------------------------------------------------------
(* Reading the latest maybe_emit_oi_alert call                              *)

Timeframes == {OI_ALERT_TIMEFRAMES[i] : i \in DOMAIN OI_ALERT_TIMEFRAMES}
Evaluated == last.kind = "eval" /\ last.symbol # DENYLISTED

\* The baseline the call resolved for tf (the history is not changed by the call).
LastBaseline(tf) == get_oi_at_lookback(oi_history, last.symbol, last.ts, tf.lookback_sec)
LastHasBaseline(tf) == LET b == LastBaseline(tf) IN b # None /\ b[1] # 0
LastDelta(tf) == last.oi - LastBaseline(tf)[1]
\* |delta| / baseOI >= threshold
LastCrossed(tf) ==
    LET b == LastBaseline(tf)
    IN  Abs(last.oi - b[1]) * 100 >= tf.threshold_pct * Abs(b[1])
LastBigEnough(tf) == Abs(LastDelta(tf)) >= OI_MIN_DELTA_CONTRACTS
LastDirection(tf) == IF LastDelta(tf) > 0 THEN "UP" ELSE "DOWN"
LastPrev(tf) == IF << last.symbol, tf.label >> \in DOMAIN last.state
                THEN last.state[<< last.symbol, tf.label >>] ELSE "INSIDE"
\* A cooldown for (symbol, dir, tf) was active when the call was made.
LastCooling(tf, dir) ==
    /\ << last.symbol, dir, tf.label >> \in DOMAIN last.cool
    /\ last.ts < last.cool[<< last.symbol, dir, tf.label >>] + tf.cooldown_sec
\* The alerts the call emitted for tf (indices in alerts).
LastEmitted(tf) ==
    {i \in (last.nalerts + 1)..Len(alerts) :
        alerts[i].symbol = last.symbol /\ alerts[i].timeframe = tf.label}
LatchIs(tf, v) ==
    /\ << last.symbol, tf.label >> \in DOMAIN oi_alert_state
    /\ oi_alert_state[<< last.symbol, tf.label >>] = v
LatchNotOutside(tf) == ~LatchIs(tf, "OUTSIDE")
\* The cooldown records of tf are those the call found.
CooldownsKept(tf) ==
    \A dir \in Directions :
        LET k == << last.symbol, dir, tf.label >>
        IN  /\ (k \in DOMAIN last_oi_alert_at) = (k \in DOMAIN last.cool)
            /\ k \in DOMAIN last.cool => last_oi_alert_at[k] = last.cool[k]
EmittedOnce(tf, dir) ==
    /\ Cardinality(LastEmitted(tf)) = 1
    /\ \A i \in LastEmitted(tf) : alerts[i].direction = dir /\ alerts[i].timestamp = last.ts
TfOf(label) == CHOOSE tf \in Timeframes : tf.label = label
SameKey(a, b) ==
    a.symbol = b.symbol /\ a.direction = b.direction /\ a.timeframe = b.timeframe
\* Every sample before the newest one holds the same OI.
ConstantBefore(buf) ==
    /\ Len(buf) >= 3
    /\ \A i \in 1..(Len(buf) - 1) : buf[i].oi = buf[1].oi

-----------------------------------------------------------------------------
(* Claims on the poll loop (Spec)                                           *)

\* C1: an evaluation whose baseline is resolvable, whose latch was INSIDE, which has
\* no active cooldown and whose sample differs from the baseline by at least the
\* threshold percentage and by at least OI_MIN_DELTA_CONTRACTS emits exactly one
\* alert for that timeframe, UP for a rise and DOWN for a fall, and leaves the
\* latch OUTSIDE.
C1_EdgeTriggeredAlert ==
    Evaluated =>
        \A tf \in Timeframes :
            ( /\ LastPrev(tf) = "INSIDE"
              /\ LastHasBaseline(tf)
              /\ LastCrossed(tf)
              /\ LastBigEnough(tf)
              /\ ~LastCooling(tf, LastDirection(tf)) )
            => /\ EmittedOnce(tf, LastDirection(tf))
               /\ LatchIs(tf, "OUTSIDE")

C1_Witness ==
    /\ Evaluated
    /\ ConstantBefore(oi_history[Symbol])
    /\ \E tf \in Timeframes :
          /\ LastHasBaseline(tf)
          /\ LastPrev(tf) = "INSIDE"
          /\ LastDelta(tf) > 0
          /\ EmittedOnce(tf, "UP")
          /\ LatchIs(tf, "OUTSIDE")

\* C2: an evaluation that finds the latch OUTSIDE, a resolvable baseline and a
\* change still at or beyond the threshold emits nothing for that timeframe and
\* leaves the latch OUTSIDE.
C2_LatchIdempotence ==
    Evaluated =>
        \A tf \in Timeframes :
            (LastPrev(tf) = "OUTSIDE" /\ LastHasBaseline(tf) /\ LastCrossed(tf))
            => /\ LastEmitted(tf) = {}
               /\ LatchIs(tf, "OUTSIDE")

C2_Witness ==
    /\ Evaluated
    /\ \E tf \in Timeframes :
          /\ LastHasBaseline(tf)
          /\ LastPrev(tf) = "OUTSIDE"
          /\ LastCrossed(tf)
          /\ LastBigEnough(tf)
          /\ LatchIs(tf, "OUTSIDE")
          /\ \E i \in DOMAIN alerts : alerts[i].timeframe = tf.label

\* C3: two alerts of the same (symbol, direction, timeframe) are never closer than
\* the timeframe's cooldown; and a qualifying crossing found with the latch INSIDE
\* at or after the end of the cooldown is emitted.
C3_CooldownSpacing ==
    /\ \A i, j \in DOMAIN alerts :
          (i < j /\ SameKey(alerts[i], alerts[j]))
          => alerts[j].timestamp >= alerts[i].timestamp + TfOf(alerts[i].timeframe).cooldown_sec
    /\ Evaluated =>
          \A tf \in Timeframes :
              ( /\ LastPrev(tf) = "INSIDE"
                /\ LastHasBaseline(tf)
                /\ LastCrossed(tf)
                /\ LastBigEnough(tf)
                /\ << last.symbol, LastDirection(tf), tf.label >> \in DOMAIN last.cool
                /\ ~LastCooling(tf, LastDirection(tf)) )
              => EmittedOnce(tf, LastDirection(tf))

C3_Witness ==
    \E i, j \in DOMAIN alerts :
        /\ i < j
        /\ SameKey(alerts[i], alerts[j])
        /\ alerts[j].timestamp = alerts[i].timestamp + TfOf(alerts[i].timeframe).cooldown_sec + 1

\* A qualifying crossing one second before the end of the cooldown, suppressed.
C3_BlockedReached ==
    /\ Evaluated
    /\ \E tf \in Timeframes :
          /\ LastHasBaseline(tf) /\ LastPrev(tf) = "INSIDE"
          /\ LastCrossed(tf) /\ LastBigEnough(tf)
          /\ << last.symbol, LastDirection(tf), tf.label >> \in DOMAIN last.cool
          /\ last.ts = last.cool[<< last.symbol, LastDirection(tf), tf.label >>] + tf.cooldown_sec - 1
          /\ LastEmitted(tf) = {}

-----------------------------------------------------------------------------
(* maybe_emit_oi_alert called on a prepared history (SpecEval), as           *)
(* test_oi_alert_logic.py does: the history is set up directly and is not    *)
(* appended to by the calls.                                                 *)

TestHistories ==
    { << [ts |-> 0, oi |-> 100000] >>,
      << [ts |-> 0, oi |-> 100000], [ts |-> 300, oi |-> 0] >>,
      << [ts |-> 0, oi |-> 100000], [ts |-> 300, oi |-> 106000] >> }
CallTimes == {300, 600, 601, 602, 3600}
CallSymbols == {Symbol, DENYLISTED}

InitEval ==
    /\ now = 0
    /\ loop_count = 0
    /\ oi_history \in {[s \in CallSymbols |-> h] : h \in TestHistories}
    /\ oi_alert_state = EmptyDict
    /\ last_oi_alert_at = EmptyDict
    /\ cooldown_file = NoFile
    /\ alerts = << >>
    /\ run = 0
    /\ last = NoCall
    /\ pending = {}
    /\ universe_size = 1
    /\ interval_sec = compute_polling_interval(1).value
    /\ divisions = -1
    /\ lookup = NoLookup
    /\ loaded = NoRoundTrip
    /\ LoopIdle

\* maybe_emit_oi_alert(symbol, oi, _, timestamp), with later and later timestamps.
Call(symbol, oi, timestamp) ==
    /\ timestamp > now
    /\ \E S \in {maybe_emit_oi_alert(Current, oi_history, symbol, oi, timestamp, NoFault)} :
           /\ now' = timestamp
           /\ oi_alert_state' = S.state
           /\ last_oi_alert_at' = S.cool
           /\ cooldown_file' = S.file
           /\ alerts' = S.alerts
           /\ pending' = S.pending
           /\ last' = CallRecord(symbol, oi, timestamp)
    /\ UNCHANGED << loop_count, oi_history, run, universe_size, interval_sec,
                    divisions, lookup, loaded >>
    /\ UNCHANGED LoopVars

NextEval == \E symbol \in CallSymbols, oi \in OIValues, timestamp \in CallTimes :
                Call(symbol, oi, timestamp)

SpecEval == InitEval /\ [][NextEval]_vars

\* C4 as stated: a change at or beyond the threshold percentage but smaller than
\* OI_MIN_DELTA_CONTRACTS, found with the latch INSIDE, emits nothing, records no
\* cooldown and leaves the latch INSIDE; and once a candidate was dropped that way,
\* the first evaluation that meets both the percentage and the absolute-delta
\* conditions emits the alert.
C4_AsStated ==
    Evaluated =>
        \A tf \in Timeframes :
            /\ (LastHasBaseline(tf) /\ LastPrev(tf) = "INSIDE" /\ LastCrossed(tf) /\ ~LastBigEnough(tf))
               => (LastEmitted(tf) = {} /\ CooldownsKept(tf) /\ LatchNotOutside(tf))
            /\ (tf.label \in last.pending /\ LastHasBaseline(tf) /\ LastCrossed(tf) /\ LastBigEnough(tf))
               => (EmittedOnce(tf, LastDirection(tf)) /\ LatchIs(tf, "OUTSIDE"))

\* C4 (amended): as C4_AsStated, but the retried candidate alerts at the first
\* evaluation that meets both conditions and is not inside the cooldown of its
\* (symbol, direction, timeframe); inside the cooldown it is skipped again.
C4_MinDeltaRetry ==
    Evaluated =>
        \A tf \in Timeframes :
            /\ (LastHasBaseline(tf) /\ LastPrev(tf) = "INSIDE" /\ LastCrossed(tf) /\ ~LastBigEnough(tf))
               => (LastEmitted(tf) = {} /\ CooldownsKept(tf) /\ LatchNotOutside(tf))
            /\ (tf.label \in last.pending /\ LastHasBaseline(tf) /\ LastCrossed(tf) /\ LastBigEnough(tf))
               => IF LastCooling(tf, LastDirection(tf))
                  THEN LastEmitted(tf) = {} /\ CooldownsKept(tf) /\ LatchNotOutside(tf)
                  ELSE EmittedOnce(tf, LastDirection(tf)) /\ LatchIs(tf, "OUTSIDE")

C4_Witness ==
    /\ Evaluated
    /\ \E tf \in Timeframes :
          /\ tf.label \in last.pending
          /\ LastHasBaseline(tf) /\ LastCrossed(tf) /\ LastBigEnough(tf)
          /\ EmittedOnce(tf, LastDirection(tf))
          /\ LatchIs(tf, "OUTSIDE")

\* C7: when the baseline of a timeframe is absent or its OI is zero, the evaluation
\* emits nothing for that timeframe, leaves its cooldown records as they were and
\* sets its latch to INSIDE whatever it was.
C7_InvalidBaselineNeverAlerts ==
    Evaluated =>
        \A tf \in Timeframes :
            ~LastHasBaseline(tf)
            => (LastEmitted(tf) = {} /\ CooldownsKept(tf) /\ LatchIs(tf, "INSIDE"))

C7_Witness ==
    /\ Evaluated
    /\ \E tf \in Timeframes :
          /\ LastBaseline(tf) # None
          /\ LastBaseline(tf)[1] = 0
          /\ LastPrev(tf) = "OUTSIDE"
          /\ LatchIs(tf, "INSIDE")
    /\ \E tf \in Timeframes : LastBaseline(tf) = None /\ LatchIs(tf, "INSIDE")

-----------------------------------------------------------------------------
(* Crash and restart of the process (SpecRestart)                           *)

RestartSteps == {1, 299}
RestartOIValues == {100000, 106000}
CrashPoints == {"before_save", "in_save"}

\* A new process started at time t on the disk state S.file (main_loop lines
\* 641-660): fresh history buffers for the universe, no latch, the cooldowns
\* load_cooldown_state returns. The alerts already posted stay posted.
Restarting(S, t) ==
    /\ run' = run + 1
    /\ now' = t
    /\ loop_count' = 0
    /\ oi_history' = [s \in DOMAIN oi_history |-> << >>]
    /\ oi_alert_state' = EmptyDict
    /\ last_oi_alert_at' = load_cooldown_state(S.file, t)
    /\ cooldown_file' = S.file
    /\ alerts' = S.alerts
    /\ pending' = {}
    /\ last' = NoCall
    /\ UNCHANGED << universe_size, interval_sec, divisions, lookup, loaded >>
    /\ UNCHANGED LoopVars

\* The process is stopped between two cycles and started again.
Restart ==
    /\ run < MaxRestarts
    /\ Restarting(Current, now)

\* The process dies inside a cycle, in the emission of an alert: after the post of
\* line 514 / 537 and before the save ("before_save"), or inside save_cooldown_state
\* after open(..., 'w') truncated the file ("in_save"); it is then started again.
PollCrash(step, oi, crash) ==
    /\ run < MaxRestarts
    /\ loop_count < MaxLoops
    /\ LET timestamp == now + step
           hist == [oi_history EXCEPT ![Symbol] = deque_append(@, [ts |-> timestamp, oi |-> oi])]
       IN  \E S \in {maybe_emit_oi_alert(Current, hist, Symbol, oi, timestamp,
                                         [write |-> "ok", crash |-> crash, post |-> "ok"])} :
               /\ S.crashed
               /\ Restarting(S, timestamp)

NextRestart ==
    \/ \E step \in RestartSteps, oi \in RestartOIValues : Poll(step, oi)
    \/ \E step \in RestartSteps, oi \in RestartOIValues, crash \in CrashPoints :
           PollCrash(step, oi, crash)
    \/ Restart

SpecRestart == Init /\ [][NextRestart]_vars

\* Only clean stops between cycles.
NextCleanRestart ==
    \/ \E step \in RestartSteps, oi \in RestartOIValues : Poll(step, oi)
    \/ Restart

SpecCleanRestart == Init /\ [][NextCleanRestart]_vars

\* C5: an alert emitted by an earlier process for (symbol, direction, timeframe) at
\* time T keeps every later process from alerting for the same key before
\* T + cooldown_sec.
C5_CooldownSurvivesRestart ==
    \A i, j \in DOMAIN alerts :
        (i < j /\ SameKey(alerts[i], alerts[j]) /\ alerts[i].run < alerts[j].run)
        => alerts[j].timestamp >= alerts[i].timestamp + TfOf(alerts[i].timeframe).cooldown_sec

\* A process that starts with a loaded record and skips a crossing because of it.
C5_LoadedCooldownBlocks ==
    /\ Evaluated
    /\ run > 0
    /\ \E tf \in Timeframes :
          /\ LastHasBaseline(tf) /\ LastCrossed(tf) /\ LastBigEnough(tf)
          /\ LastPrev(tf) = "INSIDE"
          /\ LastCooling(tf, LastDirection(tf))
          /\ LastEmitted(tf) = {}

-----------------------------------------------------------------------------
(* compute_polling_interval on its own (SpecInterval)                       *)

InitInterval ==
    /\ now = 0
    /\ loop_count = 0
    /\ oi_history = [s \in {Symbol} |-> << >>]
    /\ oi_alert_state = EmptyDict
    /\ last_oi_alert_at = EmptyDict
    /\ cooldown_file = NoFile
    /\ alerts = << >>
    /\ run = 0
    /\ last = NoCall
    /\ pending = {}
    /\ universe_size \in (0 - 2)..MaxUniverse
    /\ interval_sec = 0
    /\ divisions = -1
    /\ lookup = NoLookup
    /\ loaded = NoRoundTrip
    /\ LoopIdle

ComputeInterval ==
    /\ divisions = -1
    /\ \E r \in {compute_polling_interval(universe_size)} :
           /\ interval_sec' = r.value
           /\ divisions' = r.divisions
    /\ UNCHANGED << now, loop_count, oi_history, oi_alert_state, last_oi_alert_at,
                    cooldown_file, alerts, run, last, pending, universe_size,
                    lookup, loaded >>
    /\ UNCHANGED LoopVars

SpecInterval == InitInterval /\ [][ComputeInterval]_vars

\* C9: for a universe size of zero or less the interval is MAX_INTERVAL_SEC and no
\* division was executed.
C9_NonPositiveUniverse ==
    (divisions # -1 /\ universe_size <= 0)
    => (interval_sec = MAX_INTERVAL_SEC /\ divisions = 0)

C9_Witness ==
    divisions = 0 /\ universe_size = 0 /\ interval_sec = MAX_INTERVAL_SEC

\* C10: for a positive universe size the interval is a whole number of seconds
\* between MIN_INTERVAL_SEC and MAX_INTERVAL_SEC.
C10_IntervalWithinBounds ==
    (divisions # -1 /\ universe_size > 0)
    => interval_sec \in MIN_INTERVAL_SEC..MAX_INTERVAL_SEC

C10_Witness ==
    divisions = 2 /\ universe_size = 250 /\ interval_sec = 8

-----------------------------------------------------------------------------
(* get_oi_at_lookback on its own (SpecLookback)                             *)

\* clamp(L / 10, 30, 120), written out
ClampedTolerance(L) ==
    IF L \div 10 < 30 THEN 30 ELSE IF L \div 10 > 120 THEN 120 ELSE L \div 10

LookupNow == 5000
Lookbacks == {100, 300, 3600}
LookupOffsets(L) == {0 - ClampedTolerance(L) - 1, 0 - ClampedTolerance(L), 0, 1}
LookupTimes == UNION {{LookupNow - L + d : d \in LookupOffsets(L)} : L \in Lookbacks}

\* Buffers of at most MaxBuf samples in time order; the OI of a sample tells its place.
LookupBuffers ==
    LET stamps == UNION {[1..n -> LookupTimes] : n \in 0..MaxBuf}
        ordered == {f \in stamps : \A i \in 1..(Len(f) - 1) : f[i] <= f[i + 1]}
    IN  {[i \in DOMAIN f |-> [ts |-> f[i], oi |-> 100000 + i]] : f \in ordered}

InitLookback ==
    /\ now = LookupNow
    /\ loop_count = 0
    /\ oi_history \in {[s \in {Symbol} |-> buf] : buf \in LookupBuffers}
    /\ oi_alert_state = EmptyDict
    /\ last_oi_alert_at = EmptyDict
    /\ cooldown_file = NoFile
    /\ alerts = << >>
    /\ run = 0
    /\ last = NoCall
    /\ pending = {}
    /\ universe_size = 1
    /\ interval_sec = compute_polling_interval(1).value
    /\ divisions = -1
    /\ lookup = NoLookup
    /\ loaded = NoRoundTrip
    /\ LoopIdle

Lookup(L) ==
    /\ ~lookup.done
    /\ lookup' = [done |-> TRUE, lookback_sec |-> L,
                  index |-> lookback_index(oi_history, Symbol, now, L),
                  result |-> get_oi_at_lookback(oi_history, Symbol, now, L)]
    /\ UNCHANGED << now, loop_count, oi_history, oi_alert_state, last_oi_alert_at,
                    cooldown_file, alerts, run, last, pending, universe_size,
                    interval_sec, divisions, loaded >>
    /\ UNCHANGED LoopVars

SpecLookback == InitLookback /\ [][\E L \in Lookbacks : Lookup(L)]_vars

\* C8: on a buffer of at least 2 samples, a sample stamped exactly now - L is
\* returned, and the sample returned is never one stamped now - L - tolerance - 1
\* (nor any other farther than the tolerance), for tolerance = clamp(L/10, 30, 120).
C8_ToleranceBoundary ==
    (lookup.done /\ Len(oi_history[Symbol]) >= 2)
    => LET buf == oi_history[Symbol]
           target == now - lookup.lookback_sec
           tol == ClampedTolerance(lookup.lookback_sec)
       IN  /\ (\E i \in DOMAIN buf : buf[i].ts = target)
              => /\ lookup.index # 0
                 /\ buf[lookup.index].ts = target
                 /\ lookup.result = << buf[lookup.index].oi >>
           /\ lookup.index # 0
              => /\ buf[lookup.index].ts # target - tol - 1
                 /\ Abs(buf[lookup.index].ts - target) <= tol
           /\ lookup.index = 0 => lookup.result = None

C8_Witness ==
    /\ lookup.done
    /\ lookup.index # 0
    /\ LET buf == oi_history[Symbol]
           target == now - lookup.lookback_sec
           tol == ClampedTolerance(lookup.lookback_sec)
       IN  /\ \E i \in DOMAIN buf : buf[i].ts = target - tol - 1
           /\ buf[lookup.index].ts = target

\* The sample one second beyond the tolerance, alone near the target, is not found.
C8_BeyondToleranceReached ==
    /\ lookup.done
    /\ lookup.index = 0
    /\ Len(oi_history[Symbol]) >= 2
    /\ \E i \in DOMAIN oi_history[Symbol] :
          oi_history[Symbol][i].ts =
              now - lookup.lookback_sec - ClampedTolerance(lookup.lookback_sec) - 1

-----------------------------------------------------------------------------
(* save_cooldown_state followed by load_cooldown_state (SpecStore)          *)

StoreNow == 4000
StoreKeys == {<< sym, dir, label >> :
                 sym \in {Symbol, "A|B"}, dir \in Directions, label \in {"5 min", "1 hour"}}
StoreStamps == {StoreNow - max_cooldown - 1, StoreNow - max_cooldown, StoreNow - 10}
StoreMaps ==
    UNION {[D -> StoreStamps] : D \in {D \in SUBSET StoreKeys : Cardinality(D) <= MaxEntries}}
LoadDelays == {0, 1}

InitStore ==
    /\ now = StoreNow
    /\ loop_count = 0
    /\ oi_history = [s \in {Symbol} |-> << >>]
    /\ oi_alert_state = EmptyDict
    /\ last_oi_alert_at \in StoreMaps
    /\ cooldown_file = NoFile
    /\ alerts = << >>
    /\ run = 0
    /\ last = NoCall
    /\ pending = {}
    /\ universe_size = 1
    /\ interval_sec = compute_polling_interval(1).value
    /\ divisions = -1
    /\ lookup = NoLookup
    /\ loaded = NoRoundTrip
    /\ LoopIdle

Save ==
    /\ ~loaded.saved
    /\ cooldown_file' = save_cooldown_state(cooldown_file, last_oi_alert_at, now, "ok")
    /\ loaded' = [loaded EXCEPT !.saved = TRUE, !.saved_at = now]
    /\ UNCHANGED << now, loop_count, oi_history, oi_alert_state, last_oi_alert_at,
                    alerts, run, last, pending, universe_size, interval_sec,
                    divisions, lookup >>
    /\ UNCHANGED LoopVars

\* The load of a process started delay seconds after the save.
Load(delay) ==
    /\ loaded.saved
    /\ ~loaded.done
    /\ now' = now + delay
    /\ loaded' = [loaded EXCEPT !.done = TRUE,
                                !.data = load_cooldown_state(cooldown_file, now + delay)]
    /\ UNCHANGED << loop_count, oi_history, oi_alert_state, last_oi_alert_at,
                    cooldown_file, alerts, run, last, pending, universe_size,
                    interval_sec, divisions, lookup >>
    /\ UNCHANGED LoopVars

NextStore == Save \/ \E delay \in LoadDelays : Load(delay)

SpecStore == InitStore /\ [][NextStore]_vars

DelimiterFree(m) ==
    \A k \in DOMAIN m : \A p \in 1..3 : \A c \in 1..Len(Chunks(k[p])) : Chunks(k[p])[c] # DELIM

\* C6: for a map whose keys hold no delimiter, save then load returns exactly the
\* saved entries not older than max_cooldown at the load, keys and timestamps
\* intact; the file holds no entry older than max_cooldown at the save.
C6_RoundTrip ==
    (loaded.done /\ DelimiterFree(last_oi_alert_at))
    => LET m == last_oi_alert_at
           fresh == {k \in DOMAIN m : now - m[k] <= max_cooldown}
       IN  /\ loaded.data = [k \in fresh |-> m[k]]
           /\ \A s \in DOMAIN cooldown_file.data :
                  loaded.saved_at - cooldown_file.data[s] <= max_cooldown
           /\ \A k \in DOMAIN loaded.data : now - loaded.data[k] <= max_cooldown

C6_Witness ==
    /\ loaded.done
    /\ DelimiterFree(last_oi_alert_at)
    /\ Cardinality(DOMAIN last_oi_alert_at) = 2
    /\ Cardinality(DOMAIN loaded.data) = 1
    /\ \E k \in DOMAIN loaded.data : loaded.data[k] = last_oi_alert_at[k]

-----------------------------------------------------------------------------
(* The request rate of the computed interval (SpecInterval)                 *)

\* C11: for a positive universe size, one request per symbol per interval stays
\* within the budget: universe_size * 60 / interval_sec <= MAX_REQ_PER_MIN.
C11_RateBudget ==
    (divisions # -1 /\ universe_size > 0)
    => universe_size * 60 <= MAX_REQ_PER_MIN * interval_sec

\* The sizes whose interval is rounded down or cut at MAX_INTERVAL_SEC.
C11_RoundedDownReached ==
    divisions = 2 /\ universe_size = 167 /\ interval_sec = 5

-----------------------------------------------------------------------------
(* Startup and the multi-symbol cycle of main_loop (SpecLoop)               *)

RELOAD_EVERY == 20

MaxSymbols == 2
MaxCycles == 21
MaxSamples == 2
\* Every fetch of the first QuietUntil cycles fails.
QuietUntil == 18

SymbolPool == {"AAAUSDT", "BBBUSDT"}
Range(seq) == {seq[i] : i \in DOMAIN seq}
\* What load_liquid_universe returns: a list of distinct symbols, [] on failure.
Universes ==
    {u \in UNION {[1..n -> SymbolPool] : n \in 0..MaxSymbols} :
        \A i, j \in DOMAIN u : i # j => u[i] # u[j]}
Configs == {"ok", "no_url", "no_key"}
\* What the cycle gets for a symbol: fetch_oi_for_symbol returned None ("none"), or
\* (oi, mark_price) ("value"), or an exception is raised while the result is
\* handled, before the append or after the evaluation.
Outcomes ==
    { [kind |-> "none", oi |-> 0], [kind |-> "value", oi |-> 0],
      [kind |-> "value", oi |-> 100000],
      [kind |-> "raise_before_append", oi |-> 100000],
      [kind |-> "raise_after_eval", oi |-> 100000] }
CycleFaults == {"none", "exception_before_fetch", "exception_after_flush", "interrupt"}

\* Every buffer re-created for the listed symbols.
initialize_oi_history_reset(hist, syms) ==
    [s \in (DOMAIN hist) \cup Range(syms) |-> IF s \in Range(syms) THEN << >> ELSE hist[s]]

\* initialize_oi_history(symbols) on the dict hist.
initialize_oi_history(hist, syms) ==
    [s \in (DOMAIN hist) \cup Range(syms) |-> IF s \in DOMAIN hist THEN hist[s] ELSE << >>]

\* How load_cooldown_state finds the file.
read_outcome(file) ==
    IF ~file.exists THEN "missing" ELSE IF ~file.valid THEN "failed" ELSE "ok"

\* The startup that computes, initializes and loads before it looks at the universe.
startup_unchecked(config, universe, hist, file, t) ==
    [status |-> IF config # "ok" THEN "exit_config"
                ELSE IF universe = << >> THEN "exit_universe" ELSE "running",
     symbols |-> universe,
     size |-> Len(universe),
     interval |-> compute_polling_interval(Len(universe)),
     hist |-> initialize_oi_history(hist, universe),
     cool |-> load_cooldown_state(file, t),
     boot |-> [config |-> config, universe |-> TRUE, interval |-> TRUE,
               history |-> TRUE, cooldowns |-> read_outcome(file)]]

\* main_loop lines 620-663: what the startup leaves behind.
startup(config, universe, hist, file, t) ==
    IF config # "ok"
    THEN [status |-> "exit_config", symbols |-> << >>, size |-> 0,
          interval |-> [value |-> 0, divisions |-> -1], hist |-> hist,
          cool |-> EmptyDict, boot |-> [NotBooted EXCEPT !.config = config]]
    ELSE IF universe = << >>
    THEN [status |-> "exit_universe", symbols |-> << >>, size |-> 0,
          interval |-> [value |-> 0, divisions |-> -1], hist |-> hist,
          cool |-> EmptyDict,
          boot |-> [NotBooted EXCEPT !.config = "ok", !.universe = TRUE]]
    ELSE [status |-> "running", symbols |-> universe, size |-> Len(universe),
          interval |-> compute_polling_interval(Len(universe)),
          hist |-> initialize_oi_history(hist, universe),
          cool |-> load_cooldown_state(file, t),
          boot |-> [config |-> "ok", universe |-> TRUE, interval |-> TRUE,
                    history |-> TRUE, cooldowns |-> read_outcome(file)]]

\* A reload that takes whatever list it gets, the empty one included.
universe_changed_any(new_symbols, syms) == new_symbols # syms

\* Line 743: new_symbols and new_symbols != symbols.
universe_changed(new_symbols, syms) == new_symbols # << >> /\ new_symbols # syms

\* An exception in the handling of one result ends the handling of all that follow.
process_result_abort(P, symbol, outcome, timestamp) ==
    IF P.caught # {} THEN P
    ELSE IF outcome.kind = "none" THEN P
    ELSE IF outcome.kind = "raise_before_append" THEN [P EXCEPT !.caught = @ \cup {symbol}]
    ELSE IF outcome.oi <= 0 THEN P
    ELSE LET hist == [P.hist EXCEPT ![symbol] = deque_append(@, [ts |-> timestamp, oi |-> outcome.oi])]
             core == maybe_emit_oi_alert(P.core, hist, symbol, outcome.oi, timestamp, NoFault)
         IN  IF outcome.kind = "raise_after_eval"
             THEN [P EXCEPT !.hist = hist, !.core = core, !.caught = @ \cup {symbol}]
             ELSE [P EXCEPT !.hist = hist, !.core = core, !.batch = Append(@, symbol)]

\* The handling that drops a negative open interest only: a zero is stored.
process_result_zero_kept(P, symbol, outcome, timestamp) ==
    IF outcome.kind = "none" THEN P
    ELSE IF outcome.kind = "raise_before_append" THEN [P EXCEPT !.caught = @ \cup {symbol}]
    ELSE IF outcome.oi < 0 THEN P
    ELSE LET hist == [P.hist EXCEPT ![symbol] = deque_append(@, [ts |-> timestamp, oi |-> outcome.oi])]
             core == maybe_emit_oi_alert(P.core, hist, symbol, outcome.oi, timestamp, NoFault)
         IN  IF outcome.kind = "raise_after_eval"
             THEN [P EXCEPT !.hist = hist, !.core = core, !.caught = @ \cup {symbol}]
             ELSE [P EXCEPT !.hist = hist, !.core = core, !.batch = Append(@, symbol)]

\* main_loop lines 690-727: the handling of one completed fetch. P holds the state
\* the cycle works on: core (latches, cooldowns, file, alerts), hist, the batch
\* built so far and the symbols whose exception was caught at line 725.
process_result(P, symbol, outcome, timestamp) ==
    IF outcome.kind = "none" THEN P
    ELSE IF outcome.kind = "raise_before_append" THEN [P EXCEPT !.caught = @ \cup {symbol}]
    ELSE IF outcome.oi <= 0 THEN P
    ELSE LET hist == [P.hist EXCEPT ![symbol] = deque_append(@, [ts |-> timestamp, oi |-> outcome.oi])]
             core == maybe_emit_oi_alert(P.core, hist, symbol, outcome.oi, timestamp, NoFault)
         IN  IF outcome.kind = "raise_after_eval"
             THEN [P EXCEPT !.hist = hist, !.core = core, !.caught = @ \cup {symbol}]
             ELSE [P EXCEPT !.hist = hist, !.core = core, !.batch = Append(@, symbol)]

\* The for loop over as_completed: order is the order in which the fetches complete.
RECURSIVE process_results(_, _, _, _, _)
process_results(P, order, results, timestamp, i) ==
    IF i > Len(order) THEN P
    ELSE process_results(process_result(P, order[i], results[order[i]], timestamp),
                         order, results, timestamp, i + 1)

RECURSIVE TotalSamples(_, _)
TotalSamples(hist, syms) ==
    IF syms = {} THEN 0
    ELSE LET s == CHOOSE x \in syms : TRUE
         IN  Len(hist[s]) + TotalSamples(hist, syms \ {s})

Appends(results) ==
    Cardinality({s \in DOMAIN results :
                    results[s].oi > 0 /\ results[s].kind \in {"value", "raise_after_eval"}})

Orders(syms) ==
    {o \in [1..Len(syms) -> Range(syms)] : \A i, j \in DOMAIN o : i # j => o[i] # o[j]}

InitLoop ==
    /\ now = 0
    /\ loop_count = 0
    /\ oi_history = EmptyDict
    /\ oi_alert_state = EmptyDict
    /\ last_oi_alert_at = EmptyDict
    /\ cooldown_file \in {NoFile, CorruptFile}
    /\ alerts = << >>
    /\ run = 0
    /\ last = NoCall
    /\ pending = {}
    /\ universe_size = 0
    /\ interval_sec = 0
    /\ divisions = -1
    /\ lookup = NoLookup
    /\ loaded = NoRoundTrip
    /\ symbols = << >>
    /\ status = "boot"
    /\ boot = NotBooted
    /\ cycle = NoCycle
    /\ pool = NoPool

\* main_loop from its entry to the while loop (lines 608-669).
Startup(config, universe) ==
    /\ status = "boot"
    /\ \E B \in {startup(config, universe, oi_history, cooldown_file, now)} :
           /\ status' = B.status
           /\ symbols' = B.symbols
           /\ universe_size' = B.size
           /\ interval_sec' = B.interval.value
           /\ divisions' = B.interval.divisions
           /\ oi_history' = B.hist
           /\ last_oi_alert_at' = B.cool
           /\ boot' = B.boot
    /\ UNCHANGED << now, loop_count, oi_alert_state, cooldown_file, alerts, run, last,
                    pending, lookup, loaded, cycle, pool >>

\* One pass of the while loop (lines 672-761), or its end by an exception or an
\* interrupt (lines 763-768). new_symbols is what load_liquid_universe returns when
\* the cycle reloads the universe.
Cycle(results, order, fault, new_symbols) ==
    /\ status = "running"
    /\ loop_count < MaxCycles
    /\ TotalSamples(oi_history, DOMAIN oi_history) + Appends(results) <= MaxSamples
    /\ loop_count < QuietUntil
       => (fault = "none" /\ \A s \in DOMAIN results : results[s].kind = "none")
    /\ LET timestamp == now + interval_sec
           P0 == [core |-> Current, hist |-> oi_history, batch |-> << >>, caught |-> {}]
           reloading == (loop_count + 1) % RELOAD_EVERY = 0
           changed == reloading /\ universe_changed(new_symbols, symbols)
           record == [ran |-> TRUE, symbols |-> symbols, results |-> results,
                      fault |-> fault, before |-> oi_history,
                      state_before |-> oi_alert_state, timestamp |-> timestamp]
       IN  IF fault \in {"exception_before_fetch", "interrupt"}
           THEN /\ status' = IF fault = "interrupt" THEN "exit_interrupt" ELSE "exit_error"
                /\ loop_count' = loop_count + 1
                /\ cycle' = [ran |-> TRUE, symbols |-> symbols, results |-> results,
                             fault |-> fault, before |-> oi_history,
                             state_before |-> oi_alert_state, timestamp |-> timestamp,
                             batch |-> << >>, flushed |-> FALSE, caught |-> {},
                             fetched |-> {}, reloaded |-> FALSE,
                             reload_called |-> FALSE, new_symbols |-> << >>,
                             interval_before |-> interval_sec]
                /\ UNCHANGED << now, oi_history, oi_alert_state, last_oi_alert_at,
                                cooldown_file, alerts, run, last, pending,
                                universe_size, interval_sec, divisions, lookup,
                                loaded, symbols, boot, pool >>
           ELSE \E P \in {process_results(P0, order, results, timestamp, 1)} :
                /\ now' = timestamp
                /\ loop_count' = loop_count + 1
                /\ oi_alert_state' = P.core.state
                /\ last_oi_alert_at' = P.core.cool
                /\ cooldown_file' = P.core.file
                /\ alerts' = P.core.alerts
                /\ pending' = P.core.pending
                /\ cycle' = [ran |-> TRUE, symbols |-> symbols, results |-> results,
                             fault |-> fault, before |-> oi_history,
                             state_before |-> oi_alert_state, timestamp |-> timestamp,
                             batch |-> P.batch, flushed |-> P.batch # << >>,
                             caught |-> P.caught, fetched |-> Range(symbols),
                             reloaded |-> changed /\ fault = "none",
                             reload_called |-> reloading /\ fault = "none",
                             new_symbols |-> new_symbols,
                             interval_before |-> interval_sec]
                /\ IF fault = "exception_after_flush"
                   THEN /\ status' = "exit_error"
                        /\ oi_history' = P.hist
                        /\ UNCHANGED << symbols, universe_size, interval_sec, divisions >>
                   ELSE /\ status' = "running"
                        /\ IF changed
                           THEN /\ symbols' = new_symbols
                                /\ oi_history' = initialize_oi_history(P.hist, new_symbols)
                                /\ universe_size' = Len(new_symbols)
                                /\ \E r \in {compute_polling_interval(Len(new_symbols))} :
                                       interval_sec' = r.value /\ divisions' = r.divisions
                           ELSE /\ oi_history' = P.hist
                                /\ UNCHANGED << symbols, universe_size, interval_sec, divisions >>
                /\ UNCHANGED << run, last, lookup, loaded, boot, pool >>

NextLoop ==
    \/ \E config \in Configs, universe \in Universes : Startup(config, universe)
    \/ \E results \in [Range(symbols) -> Outcomes], order \in Orders(symbols),
          fault \in CycleFaults,
          new_symbols \in IF (loop_count + 1) % RELOAD_EVERY = 0 THEN Universes ELSE {<< >>} :
           Cycle(results, order, fault, new_symbols)

SpecLoop == InitLoop /\ [][NextLoop]_vars

-----------------------------------------------------------------------------
(* Claims on the startup and the cycle (SpecLoop)                           *)

IsPrefix(a, b) == Len(a) <= Len(b) /\ SubSeq(b, 1, Len(a)) = a
\* The cycle handled its results (it did not end before the fetches).
Handled == cycle.ran /\ cycle.fault \in {"none", "exception_after_flush"}
\* The result of symbol s makes the cycle append a sample.
Appending(s) ==
    /\ s \in DOMAIN cycle.results
    /\ cycle.results[s].oi > 0
    /\ cycle.results[s].kind \in {"value", "raise_after_eval"}
\* The buffer of s once the cycle's results are handled.
BufferAfter(s) ==
    IF Handled /\ Appending(s)
    THEN Append(cycle.before[s], [ts |-> cycle.timestamp, oi |-> cycle.results[s].oi])
    ELSE cycle.before[s]
LatchesOf(state, s) == {k \in DOMAIN state : k[1] = s}
LatchesKept(s) ==
    /\ LatchesOf(oi_alert_state, s) = LatchesOf(cycle.state_before, s)
    /\ \A k \in LatchesOf(oi_alert_state, s) : oi_alert_state[k] = cycle.state_before[k]

\* C12: while the loop runs every symbol of the universe in use has a buffer; a
\* cycle, with or without a universe reload, leaves every buffer that existed in
\* place, holding what it held plus at most the sample the cycle appended, for
\* the symbols still in the universe and for those that left it.
C12_HistoryContinuity ==
    /\ status = "running" => \A i \in DOMAIN symbols : symbols[i] \in DOMAIN oi_history
    /\ cycle.ran =>
          \A s \in DOMAIN cycle.before :
              /\ s \in DOMAIN oi_history
              /\ oi_history[s] = BufferAfter(s)
              /\ IsPrefix(cycle.before[s], oi_history[s])

\* A reload that drops one symbol and keeps another, both with samples.
C12_Witness ==
    /\ cycle.ran /\ cycle.reloaded
    /\ \E s \in Range(cycle.symbols) \ Range(symbols) : oi_history[s] # << >>
    /\ \E s \in Range(cycle.symbols) \cap Range(symbols) : oi_history[s] # << >>

\* A reload that adds a symbol: it gets an empty buffer.
C12_AddedReached ==
    /\ cycle.ran /\ cycle.reloaded
    /\ \E s \in Range(symbols) \ Range(cycle.symbols) :
          s \notin DOMAIN cycle.before /\ oi_history[s] = << >>
    /\ \E s \in Range(symbols) \cap Range(cycle.symbols) : oi_history[s] # << >>

\* C13: an exception raised in a cycle's body outside the per-symbol handling
\* leaves the loop running; the process exits only on a configuration error, an
\* empty universe at startup or an interrupt.
C13_LoopCatchAll ==
    /\ (cycle.ran /\ cycle.fault \in {"exception_before_fetch", "exception_after_flush"})
       => status = "running"
    /\ status \in {"boot", "running", "exit_config", "exit_universe", "exit_interrupt"}

C14_RaiseReached ==
    /\ cycle.ran /\ cycle.fault = "none"
    /\ \E s1, s2 \in Range(cycle.symbols) :
          /\ cycle.results[s1].kind = "raise_before_append"
          /\ s1 \in cycle.caught
          /\ cycle.results[s2].kind = "value" /\ cycle.results[s2].oi > 0
          /\ cycle.batch = << s2 >>

\* C16: a startup whose universe load returns an empty list ends the process with
\* no interval computed, no history buffer, no cooldown load and no cycle: nothing
\* was fetched, alerted or posted.
C16_EmptyUniverseStops ==
    status = "exit_universe"
    => /\ boot.config = "ok" /\ boot.universe
       /\ ~boot.interval /\ divisions = -1 /\ interval_sec = 0
       /\ ~boot.history /\ oi_history = EmptyDict
       /\ boot.cooldowns = "none" /\ last_oi_alert_at = EmptyDict
       /\ ~cycle.ran /\ loop_count = 0
       /\ alerts = << >>

C16_Witness ==
    status = "exit_universe" /\ boot.universe /\ symbols = << >> /\ cooldown_file = CorruptFile

-----------------------------------------------------------------------------
(* The poll loop with failing store and failing alert sink (SpecFaults)     *)

FaultSteps == {299}
FaultOIValues == {100000, 106000, 113000}
WriteOutcomes == {"ok", "fail_open", "fail_write"}
PostOutcomes == {"ok", "fail"}
\* The file a previous process left: one record, 1 s before this process starts.
SavedFile ==
    save_cooldown_state(NoFile, Put(EmptyDict, << Symbol, "UP", "5 min" >>, 0 - 1), 0, "ok")

InitFaults ==
    /\ now = 0
    /\ loop_count = 0
    /\ oi_history = EmptyDict
    /\ oi_alert_state = EmptyDict
    /\ last_oi_alert_at = EmptyDict
    /\ cooldown_file \in {NoFile, CorruptFile, SavedFile}
    /\ alerts = << >>
    /\ run = 0
    /\ last = NoCall
    /\ pending = {}
    /\ universe_size = 0
    /\ interval_sec = 0
    /\ divisions = -1
    /\ lookup = NoLookup
    /\ loaded = NoRoundTrip
    /\ symbols = << >>
    /\ status = "boot"
    /\ boot = NotBooted
    /\ cycle = NoCycle
    /\ pool = NoPool

\* A cycle of the one-symbol loop in which the save of the cooldowns and the post
\* of the alert may fail. The outcomes are drawn only when the call emits.
PollFault(step, oi, write, post) ==
    /\ status = "running"
    /\ loop_count < MaxLoops
    /\ oi > 0
    /\ LET timestamp == now + step
           io == [write |-> write, crash |-> "no", post |-> post]
           hist == [oi_history EXCEPT ![Symbol] = deque_append(@, [ts |-> timestamp, oi |-> oi])]
       IN  \E S \in {maybe_emit_oi_alert(Current, hist, Symbol, oi, timestamp, io)} :
           /\ S.alerts = alerts => io = NoFault
           /\ now' = timestamp
           /\ loop_count' = loop_count + 1
           /\ oi_history' = hist
           /\ oi_alert_state' = S.state
           /\ last_oi_alert_at' = S.cool
           /\ cooldown_file' = S.file
           /\ alerts' = S.alerts
           /\ pending' = S.pending
           /\ last' = [CallRecord(Symbol, oi, timestamp) EXCEPT !.io = io]
    /\ UNCHANGED << run, universe_size, interval_sec, divisions, lookup, loaded >>
    /\ UNCHANGED LoopVars

NextFaults ==
    \/ Startup("ok", << Symbol >>)
    \/ \E step \in FaultSteps, oi \in FaultOIValues, write \in WriteOutcomes,
          post \in PostOutcomes : PollFault(step, oi, write, post)

SpecFaults == InitFaults /\ [][NextFaults]_vars

\* C15: a cooldown file that is missing or cannot be read gives an empty map and
\* the startup goes on; a save that fails leaves the process running with the
\* record just added in the cooldown map, the other records as they were and the
\* latch promoted; the records in memory keep later alerts of their key apart by
\* the cooldown.
C15_StoreFailuresNotFatal ==
    /\ status \in {"boot", "running"}
    /\ (status = "running" /\ boot.cooldowns \in {"missing", "failed"} /\ last.kind = "none")
       => last_oi_alert_at = EmptyDict
    /\ (Evaluated /\ last.io.write # "ok")
       => \A tf \in Timeframes :
             LastEmitted(tf) # {}
             => \A i \in LastEmitted(tf) :
                   LET k == << last.symbol, alerts[i].direction, tf.label >>
                   IN  /\ k \in DOMAIN last_oi_alert_at
                       /\ last_oi_alert_at[k] = last.ts
                       /\ \A k2 \in DOMAIN last.cool :
                             (k2[3] = tf.label /\ k2 # k)
                             => (k2 \in DOMAIN last_oi_alert_at
                                 /\ last_oi_alert_at[k2] = last.cool[k2])
                       /\ LatchIs(tf, "OUTSIDE")
    /\ \A i, j \in DOMAIN alerts :
          (i < j /\ SameKey(alerts[i], alerts[j]))
          => alerts[j].timestamp >= alerts[i].timestamp + TfOf(alerts[i].timeframe).cooldown_sec

\* After an unreadable file at startup and an alert whose save failed, a new
\* crossing of the same key inside the cooldown is skipped.
C15_Witness ==
    /\ Evaluated
    /\ boot.cooldowns = "failed"
    /\ ~cooldown_file.valid
    /\ \E tf \in Timeframes :
          /\ LastHasBaseline(tf) /\ LastCrossed(tf) /\ LastBigEnough(tf)
          /\ LastPrev(tf) = "INSIDE"
          /\ LastCooling(tf, LastDirection(tf))
          /\ LastEmitted(tf) = {}
          /\ \E i \in DOMAIN alerts : alerts[i].timeframe = tf.label

\* The evaluation in which the save failed.
C15_FailedSaveReached ==
    /\ Evaluated
    /\ last.io.write = "fail_write"
    /\ \E tf \in Timeframes : LastEmitted(tf) # {} /\ LatchIs(tf, "OUTSIDE")
    /\ cooldown_file = CorruptFile

\* C19: an evaluation whose alert post failed records no cooldown for the key and
\* leaves the latch INSIDE.
C19_OnlyOnSuccessfulEmission ==
    Evaluated =>
        \A tf \in Timeframes :
            \A i \in LastEmitted(tf) :
                ~alerts[i].delivered => (CooldownsKept(tf) /\ LatchNotOutside(tf))

\* A failed post followed by a suppressed crossing of the same key.
C19_LostAlertReached ==
    /\ Evaluated
    /\ \A i \in DOMAIN alerts : ~alerts[i].delivered
    /\ \E tf \in Timeframes :
          /\ LastHasBaseline(tf) /\ LastCrossed(tf) /\ LastBigEnough(tf)
          /\ LastPrev(tf) = "INSIDE"
          /\ LastCooling(tf, LastDirection(tf))
          /\ LastEmitted(tf) = {}
          /\ \E i \in DOMAIN alerts : alerts[i].timeframe = tf.label

-----------------------------------------------------------------------------
(* The timeframes of one call (SpecFaults), the denylist (SpecEval)         *)

\* The state the latest call started from.
PreState ==
    [state |-> last.state, cool |-> last.cool, file |-> NoFile,
     alerts |-> SubSeq(alerts, 1, last.nalerts), run |-> run,
     pending |-> last.pending, crashed |-> FALSE]
\* The iteration of tf run on its own from that state.
Alone(tf) ==
    eval_timeframe(PreState, oi_history, last.symbol, last.oi, last.ts, tf, last.io)
LatchPart(state, label) == {<< k, state[k] >> : k \in {x \in DOMAIN state : x[2] = label}}
CooldownPart(cool, label) == {<< k, cool[k] >> : k \in {x \in DOMAIN cool : x[3] = label}}
AlertsOf(seq, from, label) ==
    {[a EXCEPT !.run = 0] : a \in {seq[i] : i \in {j \in from..Len(seq) : seq[j].timeframe = label}}}

\* C17: the iteration of one timeframe leaves the latches and cooldown records of
\* the other timeframes as they were and emits only for its own label; and what
\* the call does to a timeframe's latch, cooldown records and alerts is what that
\* timeframe's iteration does on its own from the state the call started from,
\* whatever the other timeframes did (skip, drop or alert).
C17_TimeframeIndependence ==
    Evaluated =>
        \A tf \in Timeframes :
            \E R \in {Alone(tf)} :
                /\ \A other \in Labels \ {tf.label} :
                      /\ LatchPart(R.state, other) = LatchPart(last.state, other)
                      /\ CooldownPart(R.cool, other) = CooldownPart(last.cool, other)
                      /\ AlertsOf(R.alerts, last.nalerts + 1, other) = {}
                /\ LatchPart(oi_alert_state, tf.label) = LatchPart(R.state, tf.label)
                /\ CooldownPart(last_oi_alert_at, tf.label) = CooldownPart(R.cool, tf.label)
                /\ AlertsOf(alerts, last.nalerts + 1, tf.label)
                       = AlertsOf(R.alerts, last.nalerts + 1, tf.label)

\* A call in which one timeframe is skipped by its cooldown and a later one alerts,
\* leaving the symbol INSIDE on the first and OUTSIDE on the second.
C17_Witness ==
    /\ Evaluated
    /\ \E tf1, tf2 \in Timeframes :
          /\ tf1.label = "5 min" /\ tf2.label = "15 min"
          /\ LastHasBaseline(tf1) /\ LastCrossed(tf1) /\ LastBigEnough(tf1)
          /\ LastPrev(tf1) = "INSIDE"
          /\ LastCooling(tf1, LastDirection(tf1))
          /\ LastEmitted(tf1) = {}
          /\ LatchIs(tf1, "INSIDE")
          /\ LastEmitted(tf2) # {}
          /\ LatchIs(tf2, "OUTSIDE")

\* C18: no alert, latch or cooldown record ever carries the denylisted symbol, and
\* a call for it changes nothing.
C18_DenylistExclusion ==
    /\ \A i \in DOMAIN alerts : alerts[i].symbol # DENYLISTED
    /\ \A k \in DOMAIN oi_alert_state : k[1] # DENYLISTED
    /\ \A k \in DOMAIN last_oi_alert_at : k[1] # DENYLISTED
    /\ (last.kind = "eval" /\ last.symbol = DENYLISTED)
       => /\ oi_alert_state = last.state
          /\ last_oi_alert_at = last.cool
          /\ Len(alerts) = last.nalerts

\* A call for the denylisted symbol with a 6% rise over its 5 min baseline.
C18_Witness ==
    /\ last.kind = "eval"
    /\ last.symbol = DENYLISTED
    /\ last.ts = 300
    /\ last.oi = 106000
    /\ get_oi_at_lookback(oi_history, DENYLISTED, last.ts, 300) = << 100000 >>
    /\ alerts = << >>

\* C20: an evaluation that emits for a timeframe found its latch INSIDE, emits once,
\* reports the baseline get_oi_at_lookback returned for the timeframe's lookback,
\* and the change meets the threshold and the minimum delta in the alert's direction.
C20_AlertSoundness ==
    Evaluated =>
        \A tf \in Timeframes :
            LastEmitted(tf) # {}
            => /\ LastPrev(tf) = "INSIDE"
               /\ LastHasBaseline(tf)
               /\ Cardinality(LastEmitted(tf)) = 1
               /\ \A i \in LastEmitted(tf) :
                     LET base == LastBaseline(tf)[1]
                         delta == last.oi - base
                     IN  /\ alerts[i].baseline = base
                         /\ alerts[i].current = last.oi
                         /\ base > 0
                         /\ alerts[i].direction \in Directions
                         /\ alerts[i].direction = "UP"
                            => /\ delta * 100 >= tf.threshold_pct * base
                               /\ delta >= OI_MIN_DELTA_CONTRACTS
                         /\ alerts[i].direction = "DOWN"
                            => /\ delta * 100 <= (0 - tf.threshold_pct) * base
                               /\ delta <= 0 - OI_MIN_DELTA_CONTRACTS

\* A DOWN alert emitted after an UP alert of the same timeframe.
C20_Witness ==
    /\ Evaluated
    /\ \E tf \in Timeframes :
          /\ \E i \in LastEmitted(tf) : alerts[i].direction = "DOWN"
          /\ \E j \in 1..last.nalerts :
                alerts[j].direction = "UP" /\ alerts[j].timeframe = tf.label


-----------------------------------------------------------------------------
(* The reset of the latch and the retry of a gated candidate (SpecFaults)   *)

\* The timeframe alerted before the latest call.
AlertedBefore(tf) ==
    \E j \in 1..last.nalerts :
        alerts[j].symbol = last.symbol /\ alerts[j].timeframe = tf.label

\* C21: an evaluation with a valid baseline and a change below the threshold sets
\* the latch to INSIDE whatever it was, emits nothing and leaves the cooldown
\* records as they were; and once the latch of a timeframe that alerted is INSIDE
\* again, a qualifying crossing of that timeframe alerts exactly when the cooldown
\* of its (symbol, direction, timeframe) is not active.
C21_LatchReset ==
    Evaluated =>
        \A tf \in Timeframes :
            /\ (LastHasBaseline(tf) /\ ~LastCrossed(tf))
               => /\ LatchIs(tf, "INSIDE")
                  /\ LastEmitted(tf) = {}
                  /\ CooldownsKept(tf)
            /\ ( /\ LastPrev(tf) = "INSIDE"
                 /\ AlertedBefore(tf)
                 /\ LastHasBaseline(tf)
                 /\ LastCrossed(tf)
                 /\ LastBigEnough(tf) )
               => IF LastCooling(tf, LastDirection(tf))
                  THEN LastEmitted(tf) = {}
                  ELSE EmittedOnce(tf, LastDirection(tf)) /\ LatchIs(tf, "OUTSIDE")

\* A latch found OUTSIDE and reset by a sample back inside the threshold.
C21_Witness ==
    /\ Evaluated
    /\ \E tf \in Timeframes :
          /\ LastPrev(tf) = "OUTSIDE"
          /\ LastHasBaseline(tf)
          /\ ~LastCrossed(tf)
          /\ LatchIs(tf, "INSIDE")
          /\ LastEmitted(tf) = {}

\* A timeframe that alerted, was reset, and alerts again.
C21_RealertReached ==
    /\ Evaluated
    /\ \E tf \in Timeframes :
          /\ AlertedBefore(tf)
          /\ LastPrev(tf) = "INSIDE"
          /\ LastEmitted(tf) # {}
          /\ LatchIs(tf, "OUTSIDE")


\* The latest call found a qualifying crossing of tf with the latch INSIDE and
\* skipped it because the cooldown of its key was active.
Gated(tf) ==
    /\ Evaluated
    /\ LastPrev(tf) = "INSIDE"
    /\ LastHasBaseline(tf)
    /\ LastCrossed(tf)
    /\ LastBigEnough(tf)
    /\ LastCooling(tf, LastDirection(tf))
\* The latest call found a qualifying crossing of tf whose cooldown is over.
QualifiesFree(tf) ==
    /\ Evaluated
    /\ LastHasBaseline(tf)
    /\ LastCrossed(tf)
    /\ LastBigEnough(tf)
    /\ ~LastCooling(tf, LastDirection(tf))

\* C22: a qualifying crossing skipped by the cooldown test emits nothing, leaves the
\* cooldown records as they were and the latch INSIDE; and when the evaluation that
\* follows finds a qualifying crossing of the same direction with the cooldown
\* over, it emits the alert and promotes the latch.
C22_GatedCandidateRetried ==
    /\ [](\A tf \in Timeframes :
             Gated(tf) => /\ LastEmitted(tf) = {}
                          /\ CooldownsKept(tf)
                          /\ LatchNotOutside(tf))
    /\ [][\A tf \in Timeframes :
             ( /\ Gated(tf)
               /\ last' # last
               /\ QualifiesFree(tf)'
               /\ LastDirection(tf)' = LastDirection(tf) )
             => ( /\ EmittedOnce(tf, LastDirection(tf))
                  /\ LatchIs(tf, "OUTSIDE") )']_vars

\* The process loaded a record one second short of its cooldown at the second
\* sample: the rise of that sample was skipped, the rise of the third is emitted.
C22_Witness ==
    /\ Evaluated
    /\ boot.cooldowns = "ok"
    /\ Len(oi_history[Symbol]) = 3
    /\ last.nalerts = 0
    /\ \E tf \in Timeframes :
          /\ tf.label = "5 min"
          /\ << Symbol, "UP", tf.label >> \in DOMAIN last.cool
          /\ oi_history[Symbol][2].ts - last.cool[<< Symbol, "UP", tf.label >>] = tf.cooldown_sec - 1
          /\ (oi_history[Symbol][2].oi - oi_history[Symbol][1].oi) * 100
                 >= tf.threshold_pct * oi_history[Symbol][1].oi
          /\ oi_history[Symbol][2].oi - oi_history[Symbol][1].oi >= OI_MIN_DELTA_CONTRACTS
          /\ LastPrev(tf) = "INSIDE"
          /\ EmittedOnce(tf, "UP")
          /\ LatchIs(tf, "OUTSIDE")


-----------------------------------------------------------------------------
(* The fetch workers and the control thread inside one cycle (SpecWorkers)  *)

MaxWorkerCycles == 2

WorkerSymbols == << "AAAUSDT", "BBBUSDT" >>
\* What the OI source answers to one request: an error (status not ok, or the
\* request raises), or a body holding the open interest.
Responses == { [ok |-> FALSE, oi |-> 0], [ok |-> TRUE, oi |-> 0],
               [ok |-> TRUE, oi |-> 100000] }
NoResult == [kind |-> "pending", oi |-> 0]

\* A fetch that stores its sample itself.
fetch_oi_for_symbol_storing(hist, symbol, response, t) ==
    [result |-> IF response.ok THEN [kind |-> "value", oi |-> response.oi]
                               ELSE [kind |-> "none", oi |-> 0],
     hist |-> IF response.ok
              THEN [hist EXCEPT ![symbol] = deque_append(@, [ts |-> t, oi |-> response.oi])]
              ELSE hist]

\* fetch_oi_for_symbol(symbol, mark_price), run by a worker thread at time t: what
\* it returns, and the history it leaves (it reads the session and its arguments
\* and assigns no global).
fetch_oi_for_symbol(hist, symbol, response, t) ==
    [result |-> IF response.ok THEN [kind |-> "value", oi |-> response.oi]
                               ELSE [kind |-> "none", oi |-> 0],
     hist |-> hist]

\* The pool between two cycles.
IdlePool ==
    [phase |-> "sleep", futures |-> [s \in {} |-> "done"], results |-> [s \in {} |-> NoResult],
     handled |-> {}, current |-> "", stage |-> "idle", timestamp |-> 0,
     appended |-> {}, evaluated |-> {}, batch |-> << >>, posted |-> << >>,
     inflight |-> {}, actor |-> "none"]

Running(P) == {s \in DOMAIN P.futures : P.futures[s] = "running"}

InitWorkers ==
    /\ now = 0
    /\ loop_count = 0
    /\ oi_history = initialize_oi_history(EmptyDict, WorkerSymbols)
    /\ oi_alert_state = EmptyDict
    /\ last_oi_alert_at = EmptyDict
    /\ cooldown_file = NoFile
    /\ alerts = << >>
    /\ run = 0
    /\ last = NoCall
    /\ pending = {}
    /\ universe_size = Len(WorkerSymbols)
    /\ interval_sec = compute_polling_interval(Len(WorkerSymbols)).value
    /\ divisions = compute_polling_interval(Len(WorkerSymbols)).divisions
    /\ lookup = NoLookup
    /\ loaded = NoRoundTrip
    /\ symbols = WorkerSymbols
    /\ status = "running"
    /\ boot = Booted
    /\ cycle = NoCycle
    /\ pool = IdlePool

\* Lines 673-686: the cycle starts and every fetch is submitted to the executor
\* (max_workers = 20 threads, so the fetches of this universe all start).
Submit ==
    /\ status = "running"
    /\ pool.phase = "sleep"
    /\ loop_count < MaxWorkerCycles
    /\ loop_count' = loop_count + 1
    /\ pool' = [IdlePool EXCEPT !.phase = "fetching",
                                !.futures = [s \in Range(symbols) |-> "running"],
                                !.results = [s \in Range(symbols) |-> NoResult],
                                !.actor = "control"]
    /\ UNCHANGED << now, oi_history, oi_alert_state, last_oi_alert_at, cooldown_file,
                    alerts, run, last, pending, universe_size, interval_sec, divisions,
                    lookup, loaded, symbols, status, boot, cycle >>

\* A worker thread: fetch_oi_for_symbol returns and its future completes.
WorkerReturn(symbol, response) ==
    /\ pool.phase = "fetching"
    /\ symbol \in Running(pool)
    /\ \E R \in {fetch_oi_for_symbol(oi_history, symbol, response, now)} :
           /\ oi_history' = R.hist
           /\ pool' = [pool EXCEPT !.futures[symbol] = "done",
                                   !.results[symbol] = R.result,
                                   !.actor = "worker"]
    /\ UNCHANGED << now, loop_count, oi_alert_state, last_oi_alert_at, cooldown_file,
                    alerts, run, last, pending, universe_size, interval_sec, divisions,
                    lookup, loaded, symbols, status, boot, cycle >>

\* The control thread, lines 689-703: as_completed yields a completed future; a
\* result of None or an OI <= 0 ends the iteration, otherwise the sample is stamped
\* and appended.
TakeResult(symbol) ==
    /\ pool.phase = "fetching"
    /\ pool.stage = "idle"
    /\ symbol \in DOMAIN pool.futures
    /\ pool.futures[symbol] = "done"
    /\ symbol \notin pool.handled
    /\ LET result == pool.results[symbol]
       IN  IF result.kind = "none" \/ result.oi <= 0
           THEN /\ pool' = [pool EXCEPT !.handled = @ \cup {symbol}, !.actor = "control"]
                /\ UNCHANGED oi_history
           ELSE /\ oi_history' = [oi_history EXCEPT
                                     ![symbol] = deque_append(@, [ts |-> now, oi |-> result.oi])]
                /\ pool' = [pool EXCEPT !.current = symbol, !.stage = "appended",
                                        !.timestamp = now,
                                        !.appended = @ \cup {symbol},
                                        !.actor = "control"]
    /\ UNCHANGED << now, loop_count, oi_alert_state, last_oi_alert_at, cooldown_file,
                    alerts, run, last, pending, universe_size, interval_sec, divisions,
                    lookup, loaded, symbols, status, boot, cycle >>

\* The control thread, line 706: maybe_emit_oi_alert on the sample just appended.
\* inflight keeps the fetches that were running while it ran.
Evaluate ==
    /\ pool.phase = "fetching"
    /\ pool.stage = "appended"
    /\ LET symbol == pool.current
           oi == pool.results[symbol].oi
       IN  \E S \in {maybe_emit_oi_alert(Current, oi_history, symbol, oi, pool.timestamp, NoFault)} :
               /\ oi_alert_state' = S.state
               /\ last_oi_alert_at' = S.cool
               /\ cooldown_file' = S.file
               /\ alerts' = S.alerts
               /\ pending' = S.pending
               /\ last' = CallRecord(symbol, oi, pool.timestamp)
    /\ pool' = [pool EXCEPT !.stage = "evaluated",
                            !.evaluated = @ \cup {pool.current},
                            !.inflight = @ \cup Running(pool),
                            !.actor = "control"]
    /\ UNCHANGED << now, loop_count, oi_history, run, universe_size, interval_sec,
                    divisions, lookup, loaded, symbols, status, boot, cycle >>

\* The control thread, lines 709-723: the batch record of the symbol.
Accumulate ==
    /\ pool.phase = "fetching"
    /\ pool.stage = "evaluated"
    /\ pool' = [pool EXCEPT !.batch = Append(@, pool.current),
                            !.handled = @ \cup {pool.current},
                            !.current = "", !.stage = "idle", !.actor = "control"]
    /\ UNCHANGED << now, loop_count, oi_history, oi_alert_state, last_oi_alert_at,
                    cooldown_file, alerts, run, last, pending, universe_size,
                    interval_sec, divisions, lookup, loaded, symbols, status, boot, cycle >>

\* The control thread, lines 729-761: as_completed is exhausted once every future
\* was yielded, the executor is shut down, the batch is posted if it holds a
\* record, the universe is reloaded on every 20th cycle and the thread sleeps.
Flush(new_symbols) ==
    /\ pool.phase = "fetching"
    /\ pool.stage = "idle"
    /\ pool.handled = DOMAIN pool.futures
    /\ pool' = [pool EXCEPT !.phase = "sleep", !.posted = pool.batch, !.actor = "control"]
    /\ now' = now + interval_sec
    /\ IF loop_count % RELOAD_EVERY = 0 /\ universe_changed(new_symbols, symbols)
       THEN /\ symbols' = new_symbols
            /\ oi_history' = initialize_oi_history(oi_history, new_symbols)
            /\ universe_size' = Len(new_symbols)
            /\ \E r \in {compute_polling_interval(Len(new_symbols))} :
                   interval_sec' = r.value /\ divisions' = r.divisions
       ELSE UNCHANGED << symbols, oi_history, universe_size, interval_sec, divisions >>
    /\ UNCHANGED << loop_count, oi_alert_state, last_oi_alert_at, cooldown_file, alerts,
                    run, last, pending, lookup, loaded, status, boot, cycle >>

NextWorkers ==
    \/ Submit
    \/ \E symbol \in Range(WorkerSymbols), response \in Responses :
           WorkerReturn(symbol, response)
    \/ \E symbol \in Range(WorkerSymbols) : TakeResult(symbol)
    \/ Evaluate
    \/ Accumulate
    \/ \E new_symbols \in IF loop_count % RELOAD_EVERY = 0 THEN Universes ELSE {<< >>} :
           Flush(new_symbols)

SpecWorkers == InitWorkers /\ [][NextWorkers]_vars


-----------------------------------------------------------------------------
(* Claims on the workers and the control thread (SpecWorkers)               *)

SharedState == << oi_history, oi_alert_state, last_oi_alert_at, cooldown_file >>
Records(batch, s) == Cardinality({i \in DOMAIN batch : batch[i] = s})

\* C23: no evaluation of a cycle runs while a fetch of that cycle is still running.
C23_FanInBeforeEvaluation ==
    pool.phase # "none" => pool.inflight = {}

\* The first fetch to complete is evaluated while the other is still running.
C23_EarlyEvaluationReached ==
    /\ pool.phase = "fetching"
    /\ pool.stage = "evaluated"
    /\ Running(pool) # {}
    /\ \A label \in Labels : << pool.current, label >> \in DOMAIN oi_alert_state

\* C24: every step that changes a history buffer, a latch, the cooldown map or the
\* cooldown file is a step of the control thread, which writes a buffer only when
\* it takes one completed result (or reloads the universe at the end of the
\* cycle) and the latches and cooldowns only in the evaluation of that result; a
\* step of a worker changes nothing but its own future and result.
C24_SingleWriter ==
    [][ /\ SharedState' # SharedState => pool'.actor = "control"
        /\ oi_history' # oi_history
           => \/ /\ pool.stage = "idle" /\ pool'.stage = "appended"
                 /\ \A s \in DOMAIN oi_history :
                       s # pool'.current => oi_history'[s] = oi_history[s]
              \/ pool'.phase = "sleep"
        /\ << oi_alert_state, last_oi_alert_at, cooldown_file >>'
               # << oi_alert_state, last_oi_alert_at, cooldown_file >>
           => pool.stage = "appended" /\ pool'.stage = "evaluated"
        /\ pool'.actor = "worker"
           => /\ SharedState' = SharedState
              /\ \E s \in Running(pool) :
                    pool' = [pool EXCEPT !.futures[s] = "done",
                                         !.results[s] = pool'.results[s],
                                         !.actor = "worker"] ]_vars

\* The control thread has appended a sample and evaluated it while the other
\* fetch is still running.
C24_Witness ==
    /\ pool.phase = "fetching"
    /\ pool.actor = "control"
    /\ pool.stage = "evaluated"
    /\ Running(pool) # {}
    /\ oi_history[pool.current] # << >>
    /\ << pool.current, "5 min" >> \in DOMAIN oi_alert_state

\* C25: in a cycle a symbol is evaluated after its sample was appended and gets its
\* batch record after its evaluation; the batch is posted when no fetch is running
\* any more, and it holds one record for each symbol whose fetch returned a result
\* and none for a symbol whose fetch failed.
C25_PerCyclePipeline ==
    pool.phase # "none"
    => /\ pool.evaluated \subseteq pool.appended
       /\ Range(pool.batch) \subseteq pool.evaluated
       /\ \A s \in pool.appended :
             /\ oi_history[s] # << >>
             /\ oi_history[s][Len(oi_history[s])].oi = pool.results[s].oi
       /\ (pool.phase = "sleep" /\ loop_count > 0)
          => /\ Running(pool) = {}
             /\ \A s \in DOMAIN pool.results :
                   Records(pool.posted, s) = IF pool.results[s].kind = "value" THEN 1 ELSE 0

\* A cycle posted with a fetch that returned an open interest of 0.
C25_ZeroDroppedReached ==
    /\ pool.phase = "sleep" /\ loop_count > 0
    /\ \E s \in DOMAIN pool.results :
          /\ pool.results[s] = [kind |-> "value", oi |-> 0]
          /\ Records(pool.posted, s) = 0
          /\ s \notin pool.appended


-----------------------------------------------------------------------------
(* The cooldown record of an emitted alert (SpecFaults)                     *)

\* The state of the latest call after its first n timeframes, replayed from the
\* state the call started from.
RECURSIVE Replay(_)
Replay(n) ==
    IF n = 0 THEN PreState
    ELSE eval_timeframe(Replay(n - 1), oi_history, last.symbol, last.oi, last.ts,
                        OI_ALERT_TIMEFRAMES[n], last.io)
\* The record of key k with the call's timestamp is in the file.
Stored(file, k) ==
    /\ file.exists /\ file.valid
    /\ key_str_of(k) \in DOMAIN file.data
    /\ file.data[key_str_of(k)] = last.ts
\* The iteration of timeframe n of the latest call emitted.
EmittedAt(n) == Len(Replay(n).alerts) > Len(Replay(n - 1).alerts)
AlertAt(n) == Replay(n).alerts[Len(Replay(n).alerts)]

\* C26: the iteration that emits an alert leaves, before the next timeframe is
\* looked at, the record of its (symbol, direction, timeframe) in the cooldown map
\* with the timestamp of the sample and, when the write succeeds, in the file; a
\* process that dies inside the save has the record in the map and the latch not
\* yet promoted; at the end of the call the file holds the pruned map; and a call
\* that emits nothing leaves the file as it was.
C26_SynchronousCooldownFlush ==
    /\ [](Evaluated =>
            /\ oi_alert_state = Replay(Len(OI_ALERT_TIMEFRAMES)).state
            /\ last_oi_alert_at = Replay(Len(OI_ALERT_TIMEFRAMES)).cool
            /\ \A n \in DOMAIN OI_ALERT_TIMEFRAMES :
                  EmittedAt(n) =>
                      LET tf == OI_ALERT_TIMEFRAMES[n]
                          k == << last.symbol, AlertAt(n).direction, tf.label >>
                          before == Replay(n - 1)
                          after == Replay(n)
                          dying == eval_timeframe(before, oi_history, last.symbol, last.oi,
                                                  last.ts, tf,
                                                  [last.io EXCEPT !.crash = "in_save"])
                      IN  /\ AlertAt(n).timestamp = last.ts
                          /\ k \in DOMAIN after.cool /\ after.cool[k] = last.ts
                          /\ last.io.write = "ok" => Stored(after.file, k)
                          /\ after.state[<< last.symbol, tf.label >>] = "OUTSIDE"
                          /\ dying.crashed
                          /\ k \in DOMAIN dying.cool /\ dying.cool[k] = last.ts
                          /\ dying.state = before.state
                          /\ (k \in DOMAIN last_oi_alert_at /\ last_oi_alert_at[k] = last.ts)
                          /\ last.io.write = "ok"
                             => /\ Stored(cooldown_file, k)
                                /\ cooldown_file.data = serializable_of(last_oi_alert_at, last.ts))
    /\ [][Len(alerts') = Len(alerts) => cooldown_file' = cooldown_file]_vars

\* A call that emits for two timeframes and writes both records.
C26_Witness ==
    /\ Evaluated
    /\ last.io.write = "ok"
    /\ EmittedAt(1) /\ EmittedAt(2)
    /\ Stored(Replay(1).file, << last.symbol, "UP", "5 min" >>)
    /\ Stored(cooldown_file, << last.symbol, "UP", "5 min" >>)
    /\ Stored(cooldown_file, << last.symbol, "UP", "15 min" >>)

\* A call that emits nothing and finds a written file.
C26_QuietCallReached ==
    /\ Evaluated
    /\ Len(alerts) = last.nalerts
    /\ alerts # << >>
    /\ cooldown_file.exists /\ cooldown_file.valid
    /\ cooldown_file.data # EmptyDict


-----------------------------------------------------------------------------
(* A process dying inside save_cooldown_state (SpecSaveCrash)               *)

\* The cycles, the clean stops, and the crashes whose point is inside the save.
NextSaveCrash ==
    \/ \E step \in RestartSteps, oi \in RestartOIValues : Poll(step, oi)
    \/ \E step \in RestartSteps, oi \in RestartOIValues : PollCrash(step, oi, "in_save")
    \/ Restart

SpecSaveCrash == Init /\ [][NextSaveCrash]_vars

KeyOf(a) == << a.symbol, a.direction, a.timeframe >>
\* The map after the saves of the first m alerts, as a load at time t returns it.
AlertMap(m, t) ==
    LET latest(k) == CHOOSE i \in 1..m :
                        /\ KeyOf(alerts[i]) = k
                        /\ \A j \in 1..m : KeyOf(alerts[j]) = k => j <= i
        keys == {KeyOf(alerts[i]) : i \in 1..m}
        kept == {k \in keys : ~(t - alerts[latest(k)].timestamp > max_cooldown)}
    IN  [k \in kept |-> alerts[latest(k)].timestamp]
\* A process has just started.
JustStarted == run > 0 /\ loop_count = 0 /\ last = NoCall

\* C27: the map a starting process loads is the map of the last completed save or
\* the map of the save that was in progress when the previous process died.
C27_AtomicCooldownWrite ==
    JustStarted
    => \/ last_oi_alert_at = AlertMap(Len(alerts), now)
       \/ alerts # << >> /\ last_oi_alert_at = AlertMap(Len(alerts) - 1, now)

\* A process that starts with an empty map after a crash in the save of the second
\* alert: the record of the first alert, saved earlier, is gone with the file.
C27_SavedRecordLostReached ==
    /\ JustStarted
    /\ Len(alerts) = 2
    /\ cooldown_file = CorruptFile
    /\ last_oi_alert_at = EmptyDict
    /\ AlertMap(1, now) # EmptyDict


-----------------------------------------------------------------------------
(* get_oi_at_lookback: the sample it returns (SpecResolver)                 *)

\* Timestamps around the target: at and one beyond the tolerance, and one second
\* either side of the target.
ResolverOffsets(L) ==
    {0 - ClampedTolerance(L) - 1, 0 - ClampedTolerance(L), 0 - 1, 0, 1, ClampedTolerance(L)}
ResolverTimes == UNION {{LookupNow - L + d : d \in ResolverOffsets(L)} : L \in Lookbacks}
\* Buffers of at most MaxBuf samples in time order (two samples may carry the same
\* timestamp); the OI of a sample tells its place.
ResolverBuffers ==
    LET stamps == UNION {[1..n -> ResolverTimes] : n \in 0..MaxBuf}
        ordered == {f \in stamps : \A i \in 1..(Len(f) - 1) : f[i] <= f[i + 1]}
    IN  {[i \in DOMAIN f |-> [ts |-> f[i], oi |-> 100000 + i]] : f \in ordered}

\* The symbol has one of the buffers, or none at all.
InitResolver ==
    /\ now = LookupNow
    /\ loop_count = 0
    /\ oi_history \in {[s \in {Symbol} |-> buf] : buf \in ResolverBuffers} \cup {EmptyDict}
    /\ oi_alert_state = EmptyDict
    /\ last_oi_alert_at = EmptyDict
    /\ cooldown_file = NoFile
    /\ alerts = << >>
    /\ run = 0
    /\ last = NoCall
    /\ pending = {}
    /\ universe_size = 1
    /\ interval_sec = compute_polling_interval(1).value
    /\ divisions = -1
    /\ lookup = NoLookup
    /\ loaded = NoRoundTrip
    /\ LoopIdle

SpecResolver == InitResolver /\ [][\E L \in Lookbacks : Lookup(L)]_vars

\* C28: get_oi_at_lookback returns nothing when the symbol has no buffer, when the
\* buffer holds fewer than 2 samples or when no sample is within the tolerance
\* clamp(L/10, 30, 120) of now - L; otherwise it returns the sample within the
\* tolerance nearest to now - L, the earliest in the buffer among those equally
\* near; and the call leaves the buffers as they are.
C28_ClosestWithinTolerance ==
    /\ [](lookup.done =>
            LET target == now - lookup.lookback_sec
                tol == ClampedTolerance(lookup.lookback_sec)
                buf == IF Symbol \in DOMAIN oi_history THEN oi_history[Symbol] ELSE << >>
                dist(i) == Abs(buf[i].ts - target)
                within == {i \in DOMAIN buf : dist(i) <= tol}
            IN  IF Symbol \notin DOMAIN oi_history \/ Len(buf) < 2 \/ within = {}
                THEN lookup.index = 0 /\ lookup.result = None
                ELSE /\ lookup.index \in within
                     /\ \A j \in within :
                           /\ dist(lookup.index) <= dist(j)
                           /\ dist(j) = dist(lookup.index) => lookup.index <= j
                     /\ lookup.result = << buf[lookup.index].oi >>)
    /\ [][oi_history' = oi_history]_vars

\* Two samples one second either side of the target: the earlier is returned.
C28_Witness ==
    /\ lookup.done
    /\ lookup.index # 0
    /\ LET buf == oi_history[Symbol]
           target == now - lookup.lookback_sec
       IN  /\ buf[lookup.index].ts = target - 1
           /\ \E j \in DOMAIN buf : j > lookup.index /\ buf[j].ts = target + 1
           /\ lookup.result = << buf[lookup.index].oi >>

\* The cases without a result: no buffer, one sample on the target, and two
\* samples both one second beyond the tolerance.
C28_NoBufferReached == lookup.done /\ oi_history = EmptyDict /\ lookup.result = None
C28_OneSampleReached ==
    /\ lookup.done /\ Symbol \in DOMAIN oi_history
    /\ Len(oi_history[Symbol]) = 1
    /\ oi_history[Symbol][1].ts = now - lookup.lookback_sec
    /\ lookup.result = None


-----------------------------------------------------------------------------
(* Full history buffers (SpecHistory)                                       *)

MaxHistoryCycles == 2

HistorySymbols == << "AAAUSDT", "BBBUSDT" >>
\* What a fetch of the cycle returns: None, or a positive open interest.
HistoryOutcomes == { [kind |-> "none", oi |-> 0], [kind |-> "value", oi |-> 100000] }
\* Seconds the work of a cycle takes: none to speak of, or more than the interval.
WorkTimes == {0, MIN_INTERVAL_SEC + 1}
\* The buffer of a symbol fetched in every cycle from cycle first to cycle maxlen,
\* the cycles starting MIN_INTERVAL_SEC apart; the oldest sample was stamped
\* jitter seconds after the start of its cycle, the others at the start of theirs.
Prefilled(first, jitter) ==
    [k \in 1..(maxlen - first + 1) |->
        [ts |-> MIN_INTERVAL_SEC * (first + k - 1) + (IF k = 1 THEN jitter ELSE 0),
         oi |-> 100000]]

\* A process that has run maxlen cycles on a universe of two symbols: the first
\* symbol was never fetched or fetched in every cycle, the second in every cycle
\* but the first.
InitHistory ==
    /\ now = MIN_INTERVAL_SEC * (maxlen + 1)
    /\ loop_count = maxlen
    /\ \E a \in {<< >>, Prefilled(1, 0), Prefilled(1, MIN_INTERVAL_SEC)} :
           oi_history = [s \in Range(HistorySymbols) |->
                            IF s = HistorySymbols[1] THEN a ELSE Prefilled(2, 0)]
    /\ oi_alert_state = EmptyDict
    /\ last_oi_alert_at = EmptyDict
    /\ cooldown_file = NoFile
    /\ alerts = << >>
    /\ run = 0
    /\ last = NoCall
    /\ pending = {}
    /\ universe_size = Len(HistorySymbols)
    /\ interval_sec = compute_polling_interval(Len(HistorySymbols)).value
    /\ divisions = compute_polling_interval(Len(HistorySymbols)).divisions
    /\ lookup = NoLookup
    /\ loaded = NoRoundTrip
    /\ symbols = HistorySymbols
    /\ status = "running"
    /\ boot = Booted
    /\ cycle = NoCycle
    /\ pool = NoPool

\* One pass of the while loop (lines 672-761) that is not a reload pass: the cycle
\* starts at now, its work takes work seconds, the result of symbol i is stamped
\* late[i] seconds after the start (line 700), appended, evaluated and recorded,
\* and the next cycle starts max(interval_sec, work) seconds after this one.
HistoryCycle(results, work, late) ==
    /\ status = "running"
    /\ loop_count < maxlen + MaxHistoryCycles
    /\ (loop_count + 1) % RELOAD_EVERY # 0
    /\ late[1] <= late[2] /\ late[2] <= work
    /\ \A i \in DOMAIN symbols : results[symbols[i]].kind = "none" => late[i] = 0
    /\ LET P0 == [core |-> Current, hist |-> oi_history, batch |-> << >>, caught |-> {}]
           P1 == process_result(P0, symbols[1], results[symbols[1]], now + late[1])
       IN  \E P \in {process_result(P1, symbols[2], results[symbols[2]], now + late[2])} :
               /\ now' = now + Max(interval_sec, work)
               /\ loop_count' = loop_count + 1
               /\ oi_history' = P.hist
               /\ oi_alert_state' = P.core.state
               /\ last_oi_alert_at' = P.core.cool
               /\ cooldown_file' = P.core.file
               /\ alerts' = P.core.alerts
               /\ pending' = P.core.pending
               /\ cycle' = [ran |-> TRUE, symbols |-> symbols, results |-> results,
                            fault |-> "none", before |-> oi_history,
                            state_before |-> oi_alert_state, timestamp |-> now,
                            stamps |-> [i \in DOMAIN symbols |-> now + late[i]],
                            batch |-> P.batch, flushed |-> P.batch # << >>,
                            caught |-> P.caught, fetched |-> Range(symbols),
                            reloaded |-> FALSE]
    /\ UNCHANGED << run, last, universe_size, interval_sec, divisions, lookup, loaded,
                    symbols, status, boot, pool >>

NextHistory ==
    \E results \in [Range(HistorySymbols) -> HistoryOutcomes], work \in WorkTimes :
        \E late \in {[i \in 1..2 |-> 0], [i \in 1..2 |-> work]} :
            HistoryCycle(results, work, late)

SpecHistory == InitHistory /\ [][NextHistory]_vars


-----------------------------------------------------------------------------
(* Claims on the history buffers (SpecHistory)                              *)

\* The sample the last cycle appended for the i-th symbol.
Appended(i) == [ts |-> cycle.stamps[i], oi |-> cycle.results[cycle.symbols[i]].oi]

\* The i-th symbol's buffer is the buffer before the cycle with one sample pushed:
\* on a buffer below capacity the old samples stay and the new one follows them, on a
\* full buffer the oldest sample is gone and the others moved up by one place.
Pushed(i) ==
    LET s == cycle.symbols[i]
        old == cycle.before[s]
        new == oi_history[s]
    IN  /\ Len(old) < maxlen =>
            /\ Len(new) = Len(old) + 1
            /\ \A k \in 1..Len(old) : new[k] = old[k]
        /\ Len(old) = maxlen =>
            /\ Len(new) = maxlen
            /\ \A k \in 1..(maxlen - 1) : new[k] = old[k + 1]
        /\ new[Len(new)] = Appended(i)

\* C29: a buffer never holds more than its capacity of 1080 samples; an append to a
\* full buffer evicts exactly the oldest sample and keeps the others in their order;
\* an append changes only the buffer of its symbol.
C29_BoundedFifoHistory ==
    /\ maxlen = 1080
    /\ \A s \in DOMAIN oi_history : Len(oi_history[s]) <= maxlen
    /\ cycle.ran =>
        \A i \in DOMAIN cycle.symbols :
            IF cycle.results[cycle.symbols[i]].kind = "value"
            THEN Pushed(i)
            ELSE oi_history[cycle.symbols[i]] = cycle.before[cycle.symbols[i]]

\* A cycle appended to the full buffer of the first symbol only: its oldest sample
\* is gone, the second symbol's buffer is what it was.
C29_Witness ==
    /\ cycle.ran
    /\ cycle.results[cycle.symbols[1]].kind = "value"
    /\ cycle.results[cycle.symbols[2]].kind = "none"
    /\ Len(cycle.before[cycle.symbols[1]]) = maxlen
    /\ Len(oi_history[cycle.symbols[1]]) = maxlen
    /\ oi_history[cycle.symbols[1]][1] = cycle.before[cycle.symbols[1]][2]
    /\ oi_history[cycle.symbols[1]][maxlen] = Appended(1)
    /\ oi_history[cycle.symbols[2]] = cycle.before[cycle.symbols[2]]
    /\ oi_history[cycle.symbols[2]] # << >>

\* A cycle appended to a buffer below capacity, which grew by one sample.
C29_GrowthReached ==
    /\ cycle.ran
    /\ \E i \in DOMAIN cycle.symbols :
        /\ cycle.results[cycle.symbols[i]].kind = "value"
        /\ Len(cycle.before[cycle.symbols[i]]) < maxlen
        /\ Len(oi_history[cycle.symbols[i]]) = Len(cycle.before[cycle.symbols[i]]) + 1

\* The longest configured lookback and the window a lookup over it can reach.
LongestLookback ==
    CHOOSE L \in {tf.lookback_sec : tf \in Timeframes} :
        \A tf \in Timeframes : tf.lookback_sec <= L
LongestWindow == LongestLookback + tolerance_of(LongestLookback)

\* Seconds between the oldest and the newest sample of a buffer.
Span(buf) == buf[Len(buf)].ts - buf[1].ts

\* C30: with cycles starting at least the interval (>= MIN_INTERVAL_SEC) apart and one
\* sample per symbol and cycle at most, a full buffer spans the longest lookback plus
\* its tolerance (3600 s + 120 s), and the sample an append evicts is older than
\* that, counted from the sample appended.
C30_CapacityCoversLongestLookback ==
    /\ LongestWindow = 3600 + 120
    /\ interval_sec >= MIN_INTERVAL_SEC
    /\ \A s \in DOMAIN oi_history :
        Len(oi_history[s]) = maxlen => Span(oi_history[s]) >= LongestWindow
    /\ cycle.ran =>
        \A i \in DOMAIN cycle.symbols :
            (/\ cycle.results[cycle.symbols[i]].kind = "value"
             /\ Len(cycle.before[cycle.symbols[i]]) = maxlen)
            => Appended(i).ts - cycle.before[cycle.symbols[i]][1].ts > LongestWindow

\* The tightest case: the evicted sample was stamped at the end of its cycle, every
\* cycle since started MIN_INTERVAL_SEC after the one before, and the new sample is
\* stamped at the start of its cycle; the one-hour baseline is still found.
C30_Witness ==
    /\ cycle.ran
    /\ cycle.results[cycle.symbols[1]].kind = "value"
    /\ Len(cycle.before[cycle.symbols[1]]) = maxlen
    /\ cycle.before[cycle.symbols[1]][1].ts = 2 * MIN_INTERVAL_SEC
    /\ Appended(1).ts = cycle.timestamp
    /\ cycle.timestamp = MIN_INTERVAL_SEC * (maxlen + 1)
    /\ Span(oi_history[cycle.symbols[1]]) = MIN_INTERVAL_SEC * (maxlen - 1)
    /\ get_oi_at_lookback(oi_history, cycle.symbols[1], Appended(1).ts, LongestLookback)
           # None


-----------------------------------------------------------------------------
(* The clock inside the cycles around a universe reload (SpecClock)         *)

MaxClockCycles == 3
MaxTicks == 1

\* The cycles the process has run before the first cycle of this specification.
CyclesBefore == RELOAD_EVERY - 2

\* A process about to start cycle CyclesBefore + 1; every fetch so far has failed.
\* cycle.ticks counts the seconds the clock advanced inside cycles.
InitClock ==
    /\ now = CyclesBefore * compute_polling_interval(Len(WorkerSymbols)).value
    /\ loop_count = CyclesBefore
    /\ oi_history = initialize_oi_history(EmptyDict, WorkerSymbols)
    /\ oi_alert_state = EmptyDict
    /\ last_oi_alert_at = EmptyDict
    /\ cooldown_file = NoFile
    /\ alerts = << >>
    /\ run = 0
    /\ last = NoCall
    /\ pending = {}
    /\ universe_size = Len(WorkerSymbols)
    /\ interval_sec = compute_polling_interval(Len(WorkerSymbols)).value
    /\ divisions = compute_polling_interval(Len(WorkerSymbols)).divisions
    /\ lookup = NoLookup
    /\ loaded = NoRoundTrip
    /\ symbols = WorkerSymbols
    /\ status = "running"
    /\ boot = Booted
    /\ cycle = [ran |-> FALSE, ticks |-> 0]
    /\ pool = IdlePool

\* Lines 673-686, as Submit, for the cycles after CyclesBefore.
SubmitCycle ==
    /\ status = "running"
    /\ pool.phase = "sleep"
    /\ loop_count < CyclesBefore + MaxClockCycles
    /\ loop_count' = loop_count + 1
    /\ pool' = [IdlePool EXCEPT !.phase = "fetching",
                                !.futures = [s \in Range(symbols) |-> "running"],
                                !.results = [s \in Range(symbols) |-> NoResult],
                                !.actor = "control"]
    /\ UNCHANGED << now, oi_history, oi_alert_state, last_oi_alert_at, cooldown_file,
                    alerts, run, last, pending, universe_size, interval_sec, divisions,
                    lookup, loaded, symbols, status, boot, cycle >>

\* time.time() advances by a second while the fetches of a cycle are handled.
Tick ==
    /\ pool.phase = "fetching"
    /\ cycle.ticks < MaxTicks
    /\ now' = now + 1
    /\ cycle' = [cycle EXCEPT !.ticks = @ + 1]
    /\ pool' = [pool EXCEPT !.actor = "clock"]
    /\ UNCHANGED << loop_count, oi_history, oi_alert_state, last_oi_alert_at,
                    cooldown_file, alerts, run, last, pending, universe_size,
                    interval_sec, divisions, lookup, loaded, symbols, status, boot >>

NextClock ==
    \/ SubmitCycle
    \/ Tick
    \/ \E symbol \in Range(WorkerSymbols), response \in Responses :
           WorkerReturn(symbol, response)
    \/ \E symbol \in Range(WorkerSymbols) : TakeResult(symbol)
    \/ Evaluate
    \/ Accumulate
    \/ \E new_symbols \in IF loop_count % RELOAD_EVERY = 0 THEN Universes ELSE {<< >>} :
           Flush(new_symbols)

SpecClock == InitClock /\ [][NextClock]_vars


\* The timestamps of a buffer never go down from one sample to the next.
Ordered(buf) == \A i \in 1..(Len(buf) - 1) : buf[i].ts <= buf[i + 1].ts

\* C31: in every buffer the timestamps are non-decreasing in buffer order, through
\* cycles and reloads of the universe; the sample the control thread has just
\* appended carries the time at which it took the result, and a reload changes no
\* buffer that exists.
C31_OrderedHistory ==
    /\ [](\A s \in DOMAIN oi_history : Ordered(oi_history[s]))
    /\ [](pool.stage = "appended"
            => /\ oi_history[pool.current][Len(oi_history[pool.current])].ts
                      = pool.timestamp
               /\ pool.timestamp <= now)
    /\ [][/\ now' >= now
          /\ (pool.stage = "idle" /\ pool'.stage = "appended")
                 => pool'.timestamp = now
          /\ pool'.phase = "sleep"
                 => \A s \in DOMAIN oi_history : oi_history'[s] = oi_history[s]]_vars

\* A buffer holds two samples of two cycles, the later stamped after the clock
\* advanced inside its cycle and after the result of the other symbol was handled;
\* the universe was reloaded in between and no longer lists the other symbol.
C31_Witness ==
    /\ pool.stage = "appended"
    /\ loop_count = RELOAD_EVERY + 1
    /\ Len(symbols) = 1
    /\ symbols[1] = pool.current
    /\ LET buf == oi_history[pool.current]
       IN  /\ Len(buf) = 2
           /\ buf[1].ts < buf[2].ts
           /\ buf[2].ts = now
           /\ cycle.ticks = MaxTicks
    /\ \E s \in DOMAIN oi_history : s # pool.current /\ oi_history[s] # << >>

\* Two results of one cycle stamped at different times.
C31_StampsApartReached ==
    /\ pool.phase = "fetching"
    /\ \E s, u \in pool.appended :
          oi_history[s][Len(oi_history[s])].ts < oi_history[u][Len(oi_history[u])].ts


-----------------------------------------------------------------------------
(* post_oi_batch and its call in the cycle (SpecFlush)                      *)

CHUNK_SIZE == 100

MaxFlushes == 2

\* Lengths of the batch of a cycle: empty, one chunk, and chunks with and without
\* a short last chunk.
BatchSizes == {0, 1, CHUNK_SIZE - 1, CHUNK_SIZE, CHUNK_SIZE + 1, 2 * CHUNK_SIZE,
               2 * CHUNK_SIZE + 1, 2 * CHUNK_SIZE + CHUNK_SIZE \div 2}
\* A batch of n records; a record is known by the place of its symbol in the universe.
Batch(n) == [i \in 1..n |-> i]
\* What happens to the request of one chunk: answered with response.ok; answered
\* with another status; session.post raises; answered with response.ok and a body
\* response.json() raises on.
ChunkOutcomes == {"ok", "not_ok", "raise", "bad_json"}

\* [samples[i:i + CHUNK_SIZE] for i in range(0, len(samples), CHUNK_SIZE)]
chunks_of(samples) ==
    [k \in 1..((Len(samples) + CHUNK_SIZE - 1) \div CHUNK_SIZE) |->
        SubSeq(samples, (k - 1) * CHUNK_SIZE + 1, Min(k * CHUNK_SIZE, Len(samples)))]

\* The loop that goes on to the next chunk after a failure.
RECURSIVE post_chunks_continue(_, _, _, _, _)
post_chunks_continue(chunks, outcomes, i, requests, failed) ==
    IF i > Len(chunks) THEN [ok |-> ~failed, requests |-> requests]
    ELSE post_chunks_continue(chunks, outcomes, i + 1,
                              Append(requests, [data |-> chunks[i], outcome |-> outcomes[i]]),
                              failed \/ outcomes[i] # "ok")

\* The for loop of lines 567-600 from chunk i on: requests are the requests made
\* so far; a response that is not ok and an exception both return False.
RECURSIVE post_chunks(_, _, _, _, _)
post_chunks(chunks, outcomes, i, requests, failed) ==
    IF i > Len(chunks) THEN [ok |-> TRUE, requests |-> requests]
    ELSE LET sent == Append(requests, [data |-> chunks[i], outcome |-> outcomes[i]])
         IN  IF outcomes[i] = "ok"
             THEN post_chunks(chunks, outcomes, i + 1, sent, failed)
             ELSE [ok |-> FALSE, requests |-> sent]

\* post_oi_batch(samples): what it returns and the requests it made.
post_oi_batch(samples, outcomes) ==
    IF samples = << >>
    THEN [ok |-> TRUE, requests |-> << >>]
    ELSE post_chunks(chunks_of(samples), outcomes, 1, << >>, FALSE)

NoFlush == [phase |-> "flush", called |-> FALSE, batch |-> << >>, outcomes |-> << >>,
            requests |-> << >>, returned |-> TRUE]

InitFlush ==
    /\ now = 0
    /\ loop_count = 0
    /\ oi_history = [s \in {Symbol} |-> << >>]
    /\ oi_alert_state = EmptyDict
    /\ last_oi_alert_at = EmptyDict
    /\ cooldown_file = NoFile
    /\ alerts = << >>
    /\ run = 0
    /\ last = NoCall
    /\ pending = {}
    /\ universe_size = 1
    /\ interval_sec = compute_polling_interval(1).value
    /\ divisions = -1
    /\ lookup = NoLookup
    /\ loaded = NoRoundTrip
    /\ symbols = << Symbol >>
    /\ status = "running"
    /\ boot = Booted
    /\ cycle = NoCycle
    /\ pool = NoFlush

\* Lines 729-738 on the batch a cycle collected: post_oi_batch is called when the
\* batch holds a record, its return value is dropped, and the loop goes on.
PostBatch(samples, outcomes) ==
    /\ status = "running"
    /\ loop_count < MaxFlushes
    /\ loop_count' = loop_count + 1
    /\ IF samples # << >>
       THEN \E R \in {post_oi_batch(samples, outcomes)} :
               pool' = [phase |-> "flush", called |-> TRUE, batch |-> samples,
                        outcomes |-> outcomes, requests |-> R.requests,
                        returned |-> R.ok]
       ELSE pool' = [NoFlush EXCEPT !.outcomes = outcomes]
    /\ status' = "running"
    /\ UNCHANGED << now, oi_history, oi_alert_state, last_oi_alert_at, cooldown_file,
                    alerts, run, last, pending, universe_size, interval_sec, divisions,
                    lookup, loaded, symbols, boot, cycle >>

NextFlush ==
    \E n \in BatchSizes :
        \E outcomes \in [DOMAIN chunks_of(Batch(n)) -> ChunkOutcomes] :
            PostBatch(Batch(n), outcomes)

SpecFlush == InitFlush /\ [][NextFlush]_vars

\* The records of the first n requests, one after the other.
RECURSIVE Sent(_, _)
Sent(requests, n) ==
    IF n = 0 THEN << >> ELSE Sent(requests, n - 1) \o requests[n].data

\* The chunk whose request failed first, 0 when none failed.
FirstFailure(outcomes) ==
    IF \A i \in DOMAIN outcomes : outcomes[i] = "ok" THEN 0
    ELSE CHOOSE i \in DOMAIN outcomes :
            /\ outcomes[i] # "ok"
            /\ \A j \in 1..(i - 1) : outcomes[j] = "ok"

\* C32: the chunks of a batch hold at most 100 records each and, one after the
\* other, are the batch; the requests made are the chunks in order up to and
\* including the first that fails, after which none is made and the call returns
\* failure; without a failure every chunk is posted and the call returns success;
\* the loop is running after the call; an empty batch makes no request.
C32_ChunkedFlush ==
    /\ CHUNK_SIZE = 100
    /\ status = "running"
    /\ LET chunks == chunks_of(pool.batch)
           f == FirstFailure(pool.outcomes)
       IN  /\ \A k \in DOMAIN chunks : Len(chunks[k]) \in 1..CHUNK_SIZE
           /\ Sent([k \in DOMAIN chunks |-> [data |-> chunks[k]]], Len(chunks)) = pool.batch
           /\ pool.batch = << >> => pool.requests = << >> /\ ~pool.called
           /\ pool.called =>
               /\ Len(pool.requests) = IF f = 0 THEN Len(chunks) ELSE f
               /\ \A k \in DOMAIN pool.requests : pool.requests[k].data = chunks[k]
               /\ pool.returned = (f = 0)

\* A batch of three chunks whose second request failed: two requests were made, the
\* first chunk stays posted, the third was never sent, and the loop is running.
C32_Witness ==
    /\ pool.called
    /\ Len(chunks_of(pool.batch)) = 3
    /\ pool.outcomes[1] = "ok" /\ pool.outcomes[2] = "not_ok"
    /\ Len(pool.requests) = 2
    /\ pool.requests[1].data = SubSeq(pool.batch, 1, CHUNK_SIZE)
    /\ ~pool.returned
    /\ status = "running"

\* A batch with a short last chunk posted whole.
C32_AllPostedReached ==
    /\ pool.called /\ pool.returned
    /\ Len(pool.batch) = 2 * CHUNK_SIZE + 1
    /\ Len(pool.requests) = 3
    /\ Len(pool.requests[3].data) = 1
    /\ Sent(pool.requests, 3) = pool.batch

\* A cycle with an empty batch after a cycle that posted.
C32_EmptyBatchReached ==
    /\ loop_count = 2 /\ ~pool.called /\ pool.requests = << >>


-----------------------------------------------------------------------------
(* The reload of the universe and the interval in use (SpecLoop)            *)

\* C33: load_liquid_universe is called in the cycles whose count is a multiple of 20
\* and in no other; when it fails or returns an empty list the universe, the
\* interval and the history buffers stay as the cycle left them; the universe of
\* a running loop is never empty.
C33_UniverseReload ==
    /\ RELOAD_EVERY = 20
    /\ status = "running" => symbols # << >>
    /\ cycle.ran =>
        /\ cycle.reload_called => loop_count % RELOAD_EVERY = 0
        /\ (loop_count % RELOAD_EVERY = 0 /\ cycle.fault = "none") => cycle.reload_called
        /\ cycle.symbols # << >>
        /\ (~cycle.reload_called \/ cycle.new_symbols = << >>)
           => /\ symbols = cycle.symbols
              /\ universe_size = Len(cycle.symbols)
              /\ interval_sec = cycle.interval_before
              /\ DOMAIN oi_history = DOMAIN cycle.before
              /\ \A s \in DOMAIN cycle.before : oi_history[s] = BufferAfter(s)
        /\ (cycle.reload_called /\ cycle.new_symbols # << >>)
           => symbols = cycle.new_symbols

\* Cycle 20 called load_liquid_universe and got nothing: the loop runs on with its
\* two symbols, one of them with a sample in its buffer.
C33_Witness ==
    /\ cycle.ran /\ cycle.reload_called
    /\ loop_count = RELOAD_EVERY
    /\ cycle.new_symbols = << >>
    /\ status = "running"
    /\ Len(symbols) = 2 /\ symbols = cycle.symbols
    /\ \E s \in Range(symbols) : oi_history[s] # << >>

\* Cycle 20 took a new universe.
C33_ReplacedReached ==
    /\ cycle.ran /\ cycle.reload_called /\ cycle.reloaded
    /\ symbols = cycle.new_symbols /\ symbols # cycle.symbols


-----------------------------------------------------------------------------
(* The interval and the sleep on universes of several sizes (SpecCadence)   *)

MaxCadenceCycles == 3

\* Universe sizes on which the computed interval is 5, 6 and 20 s.
CadenceSizes == {1, 200, 700}
\* The universe of n symbols, named by their rank.
UniverseOf(n) == [i \in 1..n |-> ToString(i)]
\* What load_liquid_universe returns: [] or a universe.
CadenceUniverses == {<< >>} \cup {UniverseOf(n) : n \in CadenceSizes}
\* Seconds of work in a cycle: less than any interval, between two, more than all.
ElapsedTimes == {0, MIN_INTERVAL_SEC, MIN_INTERVAL_SEC + 1, MAX_INTERVAL_SEC + 1}
\* The first symbol's fetch fails or returns an open interest; every other fetch fails.
CadenceOutcomes == { [kind |-> "none", oi |-> 0], [kind |-> "value", oi |-> 100000] }

\* A reload that keeps the interval it had.
reload_universe_keep_interval(syms, hist, interval, new_symbols) ==
    IF universe_changed(new_symbols, syms)
    THEN [symbols |-> new_symbols, hist |-> initialize_oi_history(hist, new_symbols),
          interval |-> interval]
    ELSE [symbols |-> syms, hist |-> hist, interval |-> interval]

\* Lines 742-750: the universe, the buffers and the interval after a reload that
\* got new_symbols. interval is what compute_polling_interval returned last.
reload_universe(syms, hist, interval, new_symbols) ==
    IF universe_changed(new_symbols, syms)
    THEN [symbols |-> new_symbols, hist |-> initialize_oi_history(hist, new_symbols),
          interval |-> compute_polling_interval(Len(new_symbols))]
    ELSE [symbols |-> syms, hist |-> hist, interval |-> interval]

\* Line 759: sleep_time = max(0, interval_sec - elapsed)
sleep_time_of(interval, elapsed) == Max(0, interval - elapsed)

\* A process about to start cycle CyclesBefore + 1 on a universe of one of the sizes;
\* every fetch so far has failed.
InitCadence ==
    /\ now = 0
    /\ loop_count = CyclesBefore
    /\ \E n \in CadenceSizes :
        /\ symbols = UniverseOf(n)
        /\ oi_history = initialize_oi_history(EmptyDict, UniverseOf(n))
        /\ universe_size = n
        /\ interval_sec = compute_polling_interval(n).value
        /\ divisions = compute_polling_interval(n).divisions
    /\ oi_alert_state = EmptyDict
    /\ last_oi_alert_at = EmptyDict
    /\ cooldown_file = NoFile
    /\ alerts = << >>
    /\ run = 0
    /\ last = NoCall
    /\ pending = {}
    /\ lookup = NoLookup
    /\ loaded = NoRoundTrip
    /\ status = "running"
    /\ boot = Booted
    /\ cycle = NoCycle
    /\ pool = NoPool

\* One pass of the while loop (lines 672-761) in which only the first symbol may
\* be fetched: its result is handled, the universe is reloaded when the count is a
\* multiple of 20, and the thread sleeps; elapsed is the time the pass took up to
\* line 758.
CadenceCycle(outcome, elapsed, new_symbols) ==
    /\ status = "running"
    /\ loop_count < CyclesBefore + MaxCadenceCycles
    /\ LET P0 == [core |-> Current, hist |-> oi_history, batch |-> << >>, caught |-> {}]
           reloading == (loop_count + 1) % RELOAD_EVERY = 0
           interval == [value |-> interval_sec, divisions |-> divisions]
       IN  \E P \in {process_result(P0, symbols[1], outcome, now)} :
           \E R \in {IF reloading
                     THEN reload_universe(symbols, P.hist, interval, new_symbols)
                     ELSE [symbols |-> symbols, hist |-> P.hist, interval |-> interval]} :
               /\ loop_count' = loop_count + 1
               /\ oi_alert_state' = P.core.state
               /\ last_oi_alert_at' = P.core.cool
               /\ cooldown_file' = P.core.file
               /\ alerts' = P.core.alerts
               /\ pending' = P.core.pending
               /\ symbols' = R.symbols
               /\ oi_history' = R.hist
               /\ universe_size' = Len(R.symbols)
               /\ interval_sec' = R.interval.value
               /\ divisions' = R.interval.divisions
               /\ now' = now + elapsed + sleep_time_of(R.interval.value, elapsed)
               /\ cycle' = [ran |-> TRUE, symbols |-> symbols, loop_start |-> now,
                            interval_before |-> interval_sec, elapsed |-> elapsed,
                            sleep_time |-> sleep_time_of(R.interval.value, elapsed),
                            reload_called |-> reloading, new_symbols |-> new_symbols,
                            batch |-> P.batch]
    /\ UNCHANGED << run, last, lookup, loaded, status, boot, pool >>

NextCadence ==
    \E outcome \in CadenceOutcomes, elapsed \in ElapsedTimes,
       new_symbols \in IF (loop_count + 1) % RELOAD_EVERY = 0
                       THEN CadenceUniverses ELSE {<< >>} :
        CadenceCycle(outcome, elapsed, new_symbols)

SpecCadence == InitCadence /\ [][NextCadence]_vars

\* C34: whenever a cycle starts and whenever the thread sleeps, the interval in use
\* is compute_polling_interval of the size of the universe in use; a reload that
\* changes the universe recomputes the interval in the same cycle, one that does
\* not leaves it; the sleep is max(0, interval - elapsed), so the next cycle starts
\* max(interval, elapsed) seconds after this one.
C34_IntervalTracksUniverse ==
    /\ status = "running"
       => /\ interval_sec = compute_polling_interval(Len(symbols)).value
          /\ universe_size = Len(symbols)
    /\ cycle.ran =>
        /\ cycle.interval_before = compute_polling_interval(Len(cycle.symbols)).value
        /\ symbols = cycle.symbols => interval_sec = cycle.interval_before
        /\ cycle.sleep_time = IF interval_sec > cycle.elapsed
                              THEN interval_sec - cycle.elapsed ELSE 0
        /\ now = cycle.loop_start + cycle.elapsed + cycle.sleep_time
        /\ now - cycle.loop_start = Max(interval_sec, cycle.elapsed)

\* Cycle 20 moved from a universe with a 5 s interval to one with a 20 s interval and
\* slept 14 s after 6 s of work.
C34_Witness ==
    /\ cycle.ran /\ cycle.reload_called
    /\ loop_count = RELOAD_EVERY
    /\ cycle.interval_before = MIN_INTERVAL_SEC
    /\ interval_sec = MAX_INTERVAL_SEC
    /\ Len(symbols) # Len(cycle.symbols)
    /\ cycle.elapsed = MIN_INTERVAL_SEC + 1
    /\ cycle.sleep_time = MAX_INTERVAL_SEC - MIN_INTERVAL_SEC - 1

\* A cycle whose work took longer than the interval: no sleep.
C34_NoSleepReached ==
    /\ cycle.ran
    /\ cycle.elapsed > interval_sec
    /\ cycle.sleep_time = 0
    /\ now = cycle.loop_start + cycle.elapsed

\* A universe whose interval is neither bound.
C34_MiddleIntervalReached ==
    /\ cycle.ran
    /\ interval_sec \notin {MIN_INTERVAL_SEC, MAX_INTERVAL_SEC}
    /\ cycle.sleep_time > 0


-----------------------------------------------------------------------------
(* The latch and the cooldowns of the two directions (SpecFaults)           *)

Opposite(dir) == IF dir = "UP" THEN "DOWN" ELSE "UP"
\* The call found a change beyond the threshold and large enough, in direction dir.
LastQualifies(tf, dir) ==
    /\ LastHasBaseline(tf)
    /\ LastCrossed(tf)
    /\ LastBigEnough(tf)
    /\ LastDirection(tf) = dir
\* The latest alert of (symbol, tf) among the first n alerts, 0 for none.
LatestAlert(tf, n) ==
    LET S == {i \in 1..n : alerts[i].symbol = last.symbol /\ alerts[i].timeframe = tf.label}
    IN  IF S = {} THEN 0 ELSE CHOOSE i \in S : \A j \in S : j <= i

\* C35: an evaluation that finds the latch OUTSIDE and a qualifying change in a
\* direction that has no cooldown record emits nothing for that timeframe and
\* leaves latch and cooldowns as they were; the latch was set by an alert of the
\* other direction.
C35_LatchDirectionAgnostic ==
    Evaluated =>
        \A tf \in Timeframes : \A dir \in Directions :
            ( /\ LastPrev(tf) = "OUTSIDE"
              /\ LastQualifies(tf, dir)
              /\ << last.symbol, dir, tf.label >> \notin DOMAIN last.cool )
            => /\ LastEmitted(tf) = {}
               /\ LatchIs(tf, "OUTSIDE")
               /\ CooldownsKept(tf)
               /\ LatestAlert(tf, last.nalerts) # 0
               /\ alerts[LatestAlert(tf, last.nalerts)].direction = Opposite(dir)

\* An UP alert, then the next sample falls beyond the threshold: no DOWN alert,
\* although DOWN has no cooldown record.
C35_Witness ==
    /\ Evaluated
    /\ \E tf \in Timeframes :
          /\ LastPrev(tf) = "OUTSIDE"
          /\ LastQualifies(tf, "DOWN")
          /\ << last.symbol, "DOWN", tf.label >> \notin DOMAIN last_oi_alert_at
          /\ << last.symbol, "UP", tf.label >> \in DOMAIN last_oi_alert_at
          /\ alerts[Len(alerts)].direction = "UP"
          /\ alerts[Len(alerts)].timeframe = tf.label
          /\ alerts[Len(alerts)].timestamp < last.ts
          /\ Len(alerts) = last.nalerts
          /\ LatchIs(tf, "OUTSIDE")


\* C36: a qualifying crossing found with the latch INSIDE, in a direction that is
\* not in its own cooldown, is emitted while the cooldown of the other direction
\* is still running, and the record of the other direction is left as it was.
C36_CooldownPerDirection ==
    Evaluated =>
        \A tf \in Timeframes : \A dir \in Directions :
            ( /\ LastPrev(tf) = "INSIDE"
              /\ LastQualifies(tf, dir)
              /\ ~LastCooling(tf, dir)
              /\ LastCooling(tf, Opposite(dir)) )
            => /\ EmittedOnce(tf, dir)
               /\ LatchIs(tf, "OUTSIDE")
               /\ last_oi_alert_at[<< last.symbol, dir, tf.label >>] = last.ts
               /\ last_oi_alert_at[<< last.symbol, Opposite(dir), tf.label >>]
                      = last.cool[<< last.symbol, Opposite(dir), tf.label >>]

\* An UP alert, a sample that resets the latch, then a fall beyond the threshold
\* 598 s after the UP alert, inside its cooldown of 600 s: the DOWN alert is emitted.
C36_Witness ==
    /\ Evaluated
    /\ \E tf \in Timeframes :
          /\ LastPrev(tf) = "INSIDE"
          /\ LastQualifies(tf, "DOWN")
          /\ LastCooling(tf, "UP")
          /\ EmittedOnce(tf, "DOWN")
          /\ Len(alerts) >= 2
          /\ \E i \in 1..last.nalerts :
                /\ alerts[i].direction = "UP" /\ alerts[i].timeframe = tf.label
                /\ alerts[i].run = run
                /\ last.ts - alerts[i].timestamp < tf.cooldown_sec

\* The other way round: an UP alert inside the cooldown of a DOWN alert.
C36_UpInsideDownReached ==
    /\ Evaluated
    /\ \E tf \in Timeframes :
          /\ LastPrev(tf) = "INSIDE"
          /\ LastQualifies(tf, "UP")
          /\ LastCooling(tf, "DOWN")
          /\ EmittedOnce(tf, "UP")


\* The timestamp of the latest sample of the symbol that was evaluated.
LatestEvaluated(symbol) == oi_history[symbol][Len(oi_history[symbol])].ts

\* C37: in a running process every latch that is OUTSIDE goes with a cooldown record
\* in memory for the same symbol and timeframe, UP or DOWN, stamped no later than
\* the latest evaluated sample of the symbol.
C37_LatchCooldownConsistency ==
    status = "running" =>
        \A k \in DOMAIN oi_alert_state :
            oi_alert_state[k] = "OUTSIDE"
            => /\ k[1] \in DOMAIN oi_history /\ oi_history[k[1]] # << >>
               /\ \E dir \in Directions :
                     /\ << k[1], dir, k[2] >> \in DOMAIN last_oi_alert_at
                     /\ last_oi_alert_at[<< k[1], dir, k[2] >>] <= LatestEvaluated(k[1])

\* A latch is OUTSIDE after an alert whose save failed and a later sample was
\* evaluated: the record is in memory, older than the latest sample, and not on disk.
C37_Witness ==
    /\ status = "running"
    /\ << Symbol, "5 min" >> \in DOMAIN oi_alert_state
    /\ oi_alert_state[<< Symbol, "5 min" >>] = "OUTSIDE"
    /\ << Symbol, "UP", "5 min" >> \in DOMAIN last_oi_alert_at
    /\ last_oi_alert_at[<< Symbol, "UP", "5 min" >>] < LatestEvaluated(Symbol)
    /\ last_oi_alert_at[<< Symbol, "UP", "5 min" >>] > 0
    /\ ~cooldown_file.valid


-----------------------------------------------------------------------------
(* The pruning of save and load against the cooldowns (SpecPrune)           *)

\* Ages of a record at the save: one second inside and at the end of each
\* cooldown, and one second beyond max_cooldown.
PruneAges ==
    UNION {{tf.cooldown_sec - 1, tf.cooldown_sec} : tf \in Timeframes} \cup {max_cooldown + 1}
PruneKeys == {<< Symbol, dir, label >> : dir \in Directions, label \in Labels}
PruneMaps ==
    UNION {[D -> {StoreNow - a : a \in PruneAges}] :
              D \in {D \in SUBSET PruneKeys : Cardinality(D) <= MaxEntries}}

InitPrune ==
    /\ now = StoreNow
    /\ loop_count = 0
    /\ oi_history = [s \in {Symbol} |-> << >>]
    /\ oi_alert_state = EmptyDict
    /\ last_oi_alert_at \in PruneMaps
    /\ cooldown_file = NoFile
    /\ alerts = << >>
    /\ run = 0
    /\ last = NoCall
    /\ pending = {}
    /\ universe_size = 1
    /\ interval_sec = compute_polling_interval(1).value
    /\ divisions = -1
    /\ lookup = NoLookup
    /\ loaded = NoRoundTrip
    /\ LoopIdle

SpecPrune == InitPrune /\ [][NextStore]_vars

\* The record of timeframe label stamped ts is in its cooldown at time t.
Active(label, ts, t) == t - ts < TfOf(label).cooldown_sec

\* C38: no cooldown is longer than max_cooldown; a record that save_cooldown_state
\* leaves out of the file, and a well-formed record of the file that
\* load_cooldown_state leaves out of the map, is not in its cooldown at that time.
C38_PruningKeepsActiveCooldowns ==
    /\ \A tf \in Timeframes : tf.cooldown_sec <= max_cooldown
    /\ loaded.saved =>
          \A k \in DOMAIN last_oi_alert_at :
              key_str_of(k) \notin DOMAIN cooldown_file.data
              => ~Active(k[3], last_oi_alert_at[k], loaded.saved_at)
    /\ loaded.done =>
          \A str \in DOMAIN cooldown_file.data :
              (Len(split(str)) = 3 /\ split(str) \notin DOMAIN loaded.data)
              => ~Active(split(str)[3], cooldown_file.data[str], now)

\* The save drops a one-hour record of 3601 s and keeps one of 3599 s, which is
\* still in its cooldown and comes back from the load.
C38_Witness ==
    /\ loaded.done
    /\ \E k1, k2 \in DOMAIN last_oi_alert_at :
          /\ k1[3] = "1 hour" /\ k2[3] = "1 hour"
          /\ loaded.saved_at - last_oi_alert_at[k1] = max_cooldown + 1
          /\ key_str_of(k1) \notin DOMAIN cooldown_file.data
          /\ loaded.saved_at - last_oi_alert_at[k2] = max_cooldown - 1
          /\ Active(k2[3], last_oi_alert_at[k2], now)
          /\ k2 \in DOMAIN loaded.data
          /\ loaded.data[k2] = last_oi_alert_at[k2]

\* The load, one second after the save, drops a record that was 3600 s old at the save.
C38_DroppedAtLoadReached ==
    /\ loaded.done
    /\ \E str \in DOMAIN cooldown_file.data :
          /\ Len(split(str)) = 3
          /\ split(str) \notin DOMAIN loaded.data
          /\ now - cooldown_file.data[str] = max_cooldown + 1


-----------------------------------------------------------------------------
(* Fetches that return a non-positive open interest (SpecIntake)            *)

\* Seconds from one cycle of the model to the next: two of the shorter make the
\* 5-minute lookback.
IntakeSteps == {150, 300}
\* What the fetch of the cycle returns: None, or an open interest that may be
\* negative or zero.
IntakeOutcomes ==
    { [kind |-> "none", oi |-> 0], [kind |-> "value", oi |-> 0 - 1],
      [kind |-> "value", oi |-> 0], [kind |-> "value", oi |-> 100000],
      [kind |-> "value", oi |-> 106000] }

InitIntake ==
    /\ now = 0
    /\ loop_count = 0
    /\ oi_history = [s \in {Symbol} |-> << >>]
    /\ oi_alert_state = EmptyDict
    /\ last_oi_alert_at = EmptyDict
    /\ cooldown_file = NoFile
    /\ alerts = << >>
    /\ run = 0
    /\ last = NoCall
    /\ pending = {}
    /\ universe_size = 1
    /\ interval_sec = compute_polling_interval(1).value
    /\ divisions = -1
    /\ lookup = NoLookup
    /\ loaded = NoRoundTrip
    /\ LoopIdle

\* One cycle of the one-symbol loop, step seconds after the one before, whatever
\* the fetch returned (lines 673-738): the result is handled and the batch posted.
IntakePoll(step, outcome) ==
    /\ status = "running"
    /\ loop_count < MaxLoops
    /\ LET timestamp == now + step
           P0 == [core |-> Current, hist |-> oi_history, batch |-> << >>, caught |-> {}]
       IN  \E P \in {process_result(P0, Symbol, outcome, timestamp)} :
           /\ now' = timestamp
           /\ loop_count' = loop_count + 1
           /\ oi_history' = P.hist
           /\ oi_alert_state' = P.core.state
           /\ last_oi_alert_at' = P.core.cool
           /\ cooldown_file' = P.core.file
           /\ alerts' = P.core.alerts
           /\ pending' = P.core.pending
           /\ last' = IF P.batch # << >> THEN CallRecord(Symbol, outcome.oi, timestamp)
                                         ELSE last
           /\ cycle' = [ran |-> TRUE, outcome |-> outcome, before |-> oi_history,
                        state_before |-> oi_alert_state, cool_before |-> last_oi_alert_at,
                        last_before |-> last, nalerts |-> Len(alerts),
                        timestamp |-> timestamp, batch |-> P.batch]
    /\ UNCHANGED << run, universe_size, interval_sec, divisions, lookup, loaded,
                    symbols, status, boot, pool >>

NextIntake == \E step \in IntakeSteps, outcome \in IntakeOutcomes : IntakePoll(step, outcome)

SpecIntake == InitIntake /\ [][NextIntake]_vars

\* C39: a cycle whose fetch returned an open interest of zero or less appends
\* nothing, evaluates nothing and posts no record; every sample of every buffer
\* holds an open interest above zero; every evaluation is made on such a value
\* and every baseline it resolves is above zero.
C39_NoNonPositiveOI ==
    /\ \A s \in DOMAIN oi_history :
          \A i \in DOMAIN oi_history[s] : oi_history[s][i].oi > 0
    /\ Evaluated =>
          /\ last.oi > 0
          /\ \A tf \in Timeframes :
                LET b == LastBaseline(tf) IN b # None => b[1] > 0
    /\ (cycle.ran /\ cycle.outcome.oi <= 0)
       => /\ oi_history = cycle.before
          /\ oi_alert_state = cycle.state_before
          /\ last_oi_alert_at = cycle.cool_before
          /\ last = cycle.last_before
          /\ Len(alerts) = cycle.nalerts
          /\ cycle.batch = << >>

\* A fetch returned zero between two samples: it left no trace, and the evaluation
\* of the sample after it resolved its 5-minute baseline to the sample before it.
C39_Witness ==
    /\ cycle.ran
    /\ cycle.outcome = [kind |-> "value", oi |-> 100000]
    /\ Evaluated /\ last.ts = now
    /\ Len(oi_history[Symbol]) = 2
    /\ oi_history[Symbol][2].ts - oi_history[Symbol][1].ts = 300
    /\ loop_count = 3
    /\ \E tf \in Timeframes : LastBaseline(tf) = << oi_history[Symbol][1].oi >>

\* The cycle that fetched zero, and the one that fetched a negative value.
C39_ZeroDiscardedReached ==
    /\ cycle.ran
    /\ cycle.outcome = [kind |-> "value", oi |-> 0]
    /\ oi_history[Symbol] # << >>
    /\ oi_history = cycle.before
    /\ cycle.batch = << >>
C39_NegativeDiscardedReached ==
    /\ cycle.ran
    /\ cycle.outcome = [kind |-> "value", oi |-> 0 - 1]
    /\ oi_history[Symbol] # << >>
    /\ oi_history = cycle.before
    /\ last.ts < now

====
